---- MODULE Spec2Model ----
(***************************************************************************)
(* Verification model of the expose.ai worker: the request store, the     *)
(* Cascade Orchestrator (processRequest), the Queue Poller                *)
(* (pollQueuedRequests), the HTTP /analyze trigger, the classifier batch  *)
(* operations and the cascading scoring pipeline.                         *)
(*                                                                         *)
(* Scores, confidences and entropies are fixed-point integers in           *)
(* thousandths (0.3 is 300, 1.5 bits is 1500).                             *)
(***************************************************************************)
EXTENDS Integers, Sequences, FiniteSets, TLC

\* ---------------------------------------------------------------- bounds
NumRequests == 2
NumTriggers == 1

Requests == 1..NumRequests
Poller == 0
Triggers == 1..NumTriggers
Invokers == {Poller} \cup Triggers

\* platform values of a request document (src/src/lib/types.ts:112)
Platforms == {"reddit", "x"}

\* .limit(5) of the poll query
PollLimit == 5

\* messages of the exceptions the orchestrator can catch
StoreError == "store unavailable"
FetchError == "Reddit fetch failed"
NoValidError == "No valid comments found for analysis"

VARIABLES
  reqStatus,     \* analysisRequests/<id>.status, "missing" when no document
  reqPlatform,   \* analysisRequests/<id>.platform
  reqError,      \* analysisRequests/<id>.errorMessage
  createdOrder,  \* request ids in ascending createdAt
  resultDoc,     \* analysisResults/<id> exists
  resultWrites,  \* number of set() calls that stored analysisResults/<id>
  termWrites,    \* number of writes of status done or error to the request
  inv,           \* one processRequest invocation per invoker
  pollPc,        \* position of pollQueuedRequests
  pollDocs,      \* snap.docs of the current poll cycle
  pollIdx,       \* index of the document being handled
  pollLastExc,   \* message caught by the poller's catch in this cycle
  handed,        \* requests the poller has passed to the handler
  batchPc,       \* position of a classifier batch call
  batchKind,     \* which batch operation is running
  batchTexts,    \* its argument: the texts, each with an id
  batchTask,     \* one per-text promise of the batch
  batchOut,      \* the array the batch call resolved with
  pipePc,        \* position of one run of the reddit branch of processRequest
  validComments, \* the fetched comments that passed the length filter
  totalCount,    \* comments.length
  perComment,    \* the per-comment summaries, mutated in place
  ctxPending,    \* indices of the stage 3 tasks that have not settled
  enteredMl,     \* indices of the summaries promoted to stage 'ml'
  enteredCtx,    \* indices of the summaries promoted to stage 'context'
  afterMl,       \* perComment as it was when the stage 2 loop ended
  lastResults,   \* per summary: the classifier results last applied to it
  mlPending,     \* indices of the stage 2 classifier calls not yet settled
  lookups,       \* indices of the summaries fetchParentContext was called for
  remoteCalls,   \* per summary: classifier requests issued for it
  userStats,     \* what calculateUserScore returned
  includeParent, \* the includeParent field of the request document
  \* --- one call of fetchUserComments
  fetchPc,       \* "idle", "token", "oauth", "public", "returned", "threw"
  fetchAttempt,  \* the attempt counter of the running fetchWithRetry call
  fetchStat,     \* requests issued by this call and how the OAuth path ended
  fetchResult,   \* what the call resolved or rejected with
  tokenCached,   \* oauthToken is set and has not expired
  \* --- one stage 3 task and its fetchParentContext call
  ctxPc,         \* "idle", "token", "info", "post", "resolved", "settled"
  ctxDepth,      \* nesting depth of the running fetchParentContext call
  ctxAttempt,    \* the attempt counter of the running fetchWithRetry call
  ctxStat,       \* HTTP requests made and why the lookup failed, if it did
  ctxResult,     \* what fetchParentContext resolved with
  ctxEffect,     \* what the task did to its summary
  \* --- the poller alone, on a queue longer than its batch
  pqStatus,      \* status of each request, in creation order
  pqPc,          \* "query", "handling", "sleep"
  pqDocs,        \* the snapshot of the running cycle
  pqIdx,         \* position of the for loop in pqDocs
  pqInFlight,    \* requests whose handler call has not settled
  pqStarted,     \* handler calls of the running cycle, in call order
  \* --- calls of analyzeBPC
  bpcText,       \* the text of the last call: length and entropy
  bpcAnalysis,   \* the BPCAnalysis the last call returned
  bpcPrevText,   \* the text of the call before it
  bpcPrev,       \* the BPCAnalysis of the call before it
  bpcCalls       \* calls made so far, counted up to 2

storeVars == <<reqStatus, reqPlatform, reqError, createdOrder, resultDoc,
               resultWrites, termWrites>>
pollVars == <<pollPc, pollDocs, pollIdx, pollLastExc, handed>>
batchVars == <<batchPc, batchKind, batchTexts, batchTask, batchOut>>
pipeVars == <<pipePc, validComments, totalCount, perComment, ctxPending,
              enteredMl, enteredCtx, afterMl, lastResults, mlPending,
              lookups, remoteCalls, userStats, includeParent>>
fetchVars == <<fetchPc, fetchAttempt, fetchStat, fetchResult, tokenCached>>
ctxVars == <<ctxPc, ctxDepth, ctxAttempt, ctxStat, ctxResult, ctxEffect>>
pqVars == <<pqStatus, pqPc, pqDocs, pqIdx, pqInFlight, pqStarted>>
bpcVars == <<bpcText, bpcAnalysis, bpcPrevText, bpcPrev, bpcCalls>>
OrchVars == <<storeVars, inv, pollVars>>
\* the variables the orchestrator and the poller leave alone
offOrch == <<batchVars, pipeVars, fetchVars, ctxVars, pqVars,
            bpcVars>>
\* the variables a classifier batch leaves alone
offBatch == <<OrchVars, pipeVars, fetchVars, ctxVars, pqVars,
            bpcVars>>
\* the variables a run of the pipeline leaves alone
offPipe == <<OrchVars, batchVars, fetchVars, ctxVars, pqVars,
            bpcVars>>
\* the variables a call of fetchUserComments leaves alone
offFetch == <<OrchVars, batchVars, pipeVars, ctxVars, pqVars,
            bpcVars>>
\* the variables a parent-context lookup leaves alone
offCtx == <<OrchVars, batchVars, pipeVars, fetchPc, fetchAttempt, fetchStat,
            fetchResult, pqVars,
            bpcVars>>
\* the variables the poller on its long queue leaves alone
offPq == <<OrchVars, batchVars, pipeVars, fetchVars, ctxVars,
            bpcVars>>
\* the variables a call of analyzeBPC leaves alone
offBpc == <<OrchVars, batchVars, pipeVars, fetchVars, ctxVars, pqVars>>
vars == <<reqStatus, reqPlatform, reqError, createdOrder, resultDoc,
          resultWrites, termWrites, inv, pollPc, pollDocs, pollIdx,
          pollLastExc, handed, batchPc, batchKind, batchTexts, batchTask,
          batchOut, pipePc, validComments, totalCount, perComment,
          ctxPending, enteredMl, enteredCtx, afterMl, lastResults, mlPending,
          lookups, remoteCalls, userStats, includeParent, fetchPc, fetchAttempt, fetchStat, fetchResult,
          tokenCached, ctxPc, ctxDepth, ctxAttempt, ctxStat, ctxResult,
          ctxEffect, pqStatus, pqPc, pqDocs, pqIdx, pqInFlight, pqStarted,
          bpcText, bpcAnalysis, bpcPrevText, bpcPrev, bpcCalls>>

\* ------------------------------------------------------- processRequest
IdleInv ==
  [pc |-> "idle", req |-> 0, snap |-> "none", platform |-> "none",
   exc |-> "none", writes |-> 0, calls |-> 0, setFetching |-> FALSE,
   outcome |-> "none"]

\* the state of an invocation right after processRequest(requestId) is
\* called: reqRef.get() has been issued
StartInv(r) == [IdleInv EXCEPT !.pc = "get", !.req = r]

\* a guard that lets through everything but a missing or finished request
SkipsRequestFinishedOnly(snap) == snap = "missing" \/ snap = "done"

\* the two early returns of processRequest: !reqSnap.exists and
\* data.status !== 'queued'
SkipsRequest(snap) == snap = "missing" \/ snap # "queued"

\* await reqRef.get() and the guard that follows it
Get(i) ==
  /\ inv[i].pc = "get"
  /\ \/ LET r == inv[i].req
            s == reqStatus[r]
        IN inv' = [inv EXCEPT ![i].snap = s,
                              ![i].platform = reqPlatform[r],
                              ![i].pc = IF SkipsRequest(s) THEN "returned"
                                        ELSE "updateFetching",
                              ![i].outcome = IF SkipsRequest(s) THEN "skipped"
                                             ELSE "none"]
     \/ inv' = [inv EXCEPT ![i].pc = "threw", ![i].exc = StoreError,
                           ![i].outcome = "threw"]
  /\ UNCHANGED <<storeVars, pollVars>>
  /\ UNCHANGED offOrch

\* the branch taken once status is 'fetching': the reddit pipeline, or the
\* else branch that only resets the local counters and returns
AfterFetching(platform) == IF platform = "reddit" THEN "fetch" ELSE "returned"

\* await reqRef.update({ status: 'fetching' }), outside the try block
UpdateFetching(i) ==
  /\ inv[i].pc = "updateFetching"
  /\ \/ /\ reqStatus' = [reqStatus EXCEPT ![inv[i].req] = "fetching"]
        /\ inv' = [inv EXCEPT ![i].writes = @ + 1,
                              ![i].setFetching = TRUE,
                              ![i].pc = AfterFetching(inv[i].platform),
                              ![i].outcome =
                                 IF AfterFetching(inv[i].platform) = "returned"
                                 THEN "unsupported" ELSE "none"]
     \/ /\ inv' = [inv EXCEPT ![i].pc = "threw", ![i].exc = StoreError,
                              ![i].outcome = "threw"]
        /\ UNCHANGED reqStatus
  /\ UNCHANGED <<reqPlatform, reqError, createdOrder, resultDoc, resultWrites,
                 termWrites, pollVars>>
  /\ UNCHANGED offOrch

\* await fetchUserComments(userId, 100), the length filter with its
\* 'No valid comments' throw, and stages 1 to 3 up to calculateUserScore:
\* one content-source call, then remote calls for the escalated items (none
\* when nothing is escalated). The classifier batches and the per-item
\* context tasks catch their own failures, so only the fetch and the filter
\* can throw here.
RunPipeline(i) ==
  /\ inv[i].pc = "fetch"
  /\ \/ \E k \in 0..1 :
          inv' = [inv EXCEPT ![i].calls = @ + 1 + k, ![i].pc = "saveResult"]
     \/ \E e \in {FetchError, NoValidError} :
          inv' = [inv EXCEPT ![i].calls = @ + 1, ![i].pc = "catch",
                             ![i].exc = e]
  /\ UNCHANGED <<storeVars, pollVars>>
  /\ UNCHANGED offOrch

\* await db.collection('analysisResults').doc(requestId).set(resultDoc)
SaveResult(i) ==
  /\ inv[i].pc = "saveResult"
  /\ \/ /\ resultDoc' = [resultDoc EXCEPT ![inv[i].req] = TRUE]
        /\ resultWrites' = [resultWrites EXCEPT ![inv[i].req] = @ + 1]
        /\ inv' = [inv EXCEPT ![i].writes = @ + 1, ![i].pc = "markDone"]
     \/ /\ inv' = [inv EXCEPT ![i].pc = "catch", ![i].exc = StoreError]
        /\ UNCHANGED <<resultDoc, resultWrites>>
  /\ UNCHANGED <<reqStatus, reqPlatform, reqError, createdOrder, termWrites,
                 pollVars>>
  /\ UNCHANGED offOrch

\* await reqRef.update({ status: 'done' })
MarkDone(i) ==
  /\ inv[i].pc = "markDone"
  /\ \/ /\ reqStatus' = [reqStatus EXCEPT ![inv[i].req] = "done"]
        /\ termWrites' = [termWrites EXCEPT ![inv[i].req] = @ + 1]
        /\ inv' = [inv EXCEPT ![i].writes = @ + 1, ![i].pc = "returned",
                              ![i].outcome = "done"]
     \/ /\ inv' = [inv EXCEPT ![i].pc = "catch", ![i].exc = StoreError]
        /\ UNCHANGED <<reqStatus, termWrites>>
  /\ UNCHANGED <<reqPlatform, reqError, createdOrder, resultDoc, resultWrites,
                 pollVars>>
  /\ UNCHANGED offOrch

\* the catch block: await reqRef.update({ status: 'error', errorMessage })
Catch(i) ==
  /\ inv[i].pc = "catch"
  /\ \/ /\ reqStatus' = [reqStatus EXCEPT ![inv[i].req] = "error"]
        /\ reqError' = [reqError EXCEPT ![inv[i].req] = inv[i].exc]
        /\ termWrites' = [termWrites EXCEPT ![inv[i].req] = @ + 1]
        /\ inv' = [inv EXCEPT ![i].writes = @ + 1, ![i].pc = "returned",
                              ![i].outcome = "error"]
     \/ /\ inv' = [inv EXCEPT ![i].pc = "threw", ![i].exc = StoreError,
                              ![i].outcome = "threw"]
        /\ UNCHANGED <<reqStatus, reqError, termWrites>>
  /\ UNCHANGED <<reqPlatform, createdOrder, resultDoc, resultWrites, pollVars>>
  /\ UNCHANGED offOrch

\* one step of the processRequest invocation of invoker i
ProcessStep(i) ==
  \/ Get(i)
  \/ UpdateFetching(i)
  \/ RunPipeline(i)
  \/ SaveResult(i)
  \/ MarkDone(i)
  \/ Catch(i)

\* ------------------------------------------------------------ submitter
\* QUEUE_USER_ANALYSIS: addDoc of a new request in status queued
Submit(r, p) ==
  /\ reqStatus[r] = "missing"
  /\ r = Len(createdOrder) + 1
  /\ reqStatus' = [reqStatus EXCEPT ![r] = "queued"]
  /\ reqPlatform' = [reqPlatform EXCEPT ![r] = p]
  /\ createdOrder' = Append(createdOrder, r)
  /\ UNCHANGED <<reqError, resultDoc, resultWrites, termWrites, inv, pollVars>>
  /\ UNCHANGED offOrch

\* -------------------------------------------------------- HTTP trigger
\* POST or GET /analyze with a requestId: await processRequest(requestId)
TriggerStart(t, r) ==
  /\ inv[t].pc = "idle"
  /\ inv' = [inv EXCEPT ![t] = StartInv(r)]
  /\ UNCHANGED <<storeVars, pollVars>>
  /\ UNCHANGED offOrch

\* res.end('ok') with 200, or the handler's catch answering 500
TriggerRespond(t) ==
  /\ inv[t].pc \in {"returned", "threw"}
  /\ inv' = [inv EXCEPT ![t] = IdleInv]
  /\ UNCHANGED <<storeVars, pollVars>>
  /\ UNCHANGED offOrch

\* --------------------------------------------------- pollQueuedRequests
RECURSIVE SelectQueued(_)
\* the documents of createdOrder whose status is queued, oldest first
SelectQueued(s) ==
  IF s = <<>> THEN <<>>
  ELSE IF reqStatus[Head(s)] = "queued"
       THEN <<Head(s)>> \o SelectQueued(Tail(s))
       ELSE SelectQueued(Tail(s))

\* where('status','==','queued').orderBy('createdAt','asc').limit(5)
QueuedBatch ==
  LET q == SelectQueued(createdOrder)
  IN IF Len(q) <= PollLimit THEN q ELSE SubSeq(q, 1, PollLimit)

\* a loop without the try/catch: the exception rejects pollQueuedRequests
PollNoCatch == "crashed"

\* where the loop continues after an exception inside the try block: the
\* catch logs it and control falls through to the sleep
PollCatch == "sleep"

\* the query of one poll cycle resolved, and the first handler call of the
\* for loop
PollQueryOk ==
  /\ pollPc = "query"
  /\ LET docs == QueuedBatch
     IN /\ pollDocs' = docs
        /\ pollLastExc' = "none"
        /\ IF docs = <<>>
           THEN /\ pollPc' = "sleep"
                /\ pollIdx' = 0
                /\ UNCHANGED <<inv, handed>>
           ELSE /\ pollPc' = "handling"
                /\ pollIdx' = 1
                /\ inv' = [inv EXCEPT ![Poller] = StartInv(docs[1])]
                /\ handed' = handed \cup {docs[1]}
  /\ UNCHANGED storeVars
  /\ UNCHANGED offOrch

\* the query of one poll cycle rejected
PollQueryFail ==
  /\ pollPc = "query"
  /\ pollPc' = PollCatch
  /\ pollLastExc' = StoreError
  /\ pollDocs' = <<>>
  /\ pollIdx' = 0
  /\ UNCHANGED <<storeVars, inv, handed>>
  /\ UNCHANGED offOrch

\* await handler(doc.id) resolved: next document of the batch, or sleep
PollHandlerReturned ==
  /\ pollPc = "handling"
  /\ inv[Poller].pc = "returned"
  /\ IF pollIdx < Len(pollDocs)
     THEN /\ pollIdx' = pollIdx + 1
          /\ inv' = [inv EXCEPT ![Poller] = StartInv(pollDocs[pollIdx + 1])]
          /\ handed' = handed \cup {pollDocs[pollIdx + 1]}
          /\ UNCHANGED <<pollPc, pollDocs, pollLastExc>>
     ELSE /\ pollPc' = "sleep"
          /\ inv' = [inv EXCEPT ![Poller] = IdleInv]
          /\ UNCHANGED <<pollDocs, pollIdx, pollLastExc, handed>>
  /\ UNCHANGED storeVars
  /\ UNCHANGED offOrch

\* await handler(doc.id) rejected: the for loop is left through the catch
PollHandlerThrew ==
  /\ pollPc = "handling"
  /\ inv[Poller].pc = "threw"
  /\ pollPc' = PollCatch
  /\ pollLastExc' = inv[Poller].exc
  /\ inv' = [inv EXCEPT ![Poller] = IdleInv]
  /\ UNCHANGED <<storeVars, pollDocs, pollIdx, handed>>
  /\ UNCHANGED offOrch

\* setTimeout(r, intervalMs) fired: the next iteration of while (true)
PollSleep ==
  /\ pollPc = "sleep"
  /\ pollPc' = "query"
  /\ pollLastExc' = "none"
  /\ UNCHANGED <<storeVars, inv, pollDocs, pollIdx, handed>>
  /\ UNCHANGED offOrch

\* every step the poller's own control flow takes
PollerNext ==
  \/ PollQueryOk
  \/ PollQueryFail
  \/ PollHandlerReturned
  \/ PollHandlerThrew
  \/ PollSleep
  \/ (pollPc = "handling" /\ ProcessStep(Poller))

\* ------------------------------------------------------ classifier batch
\* bound of the model: the number of texts of one batch call
MaxBatch == 2

\* maxRetries of HuggingFaceClient
MaxRetries == 3
\* minLength of BertConfig, PerplexityConfig and AIDetectorConfig
MinLength == 20
\* threshold of PerplexityConfig, in perplexity units
PerplexityThreshold == 30

\* bound of the model: the length of the AI detector's list of models (the
\* loop of detectText is written for any list; AI_DETECTION_MODELS names one)
NumModels == 2

BatchKinds == {"bert", "perplexity", "aidetector"}
BatchIds == <<"A", "B", "C", "D">>

\* The texts of the model. len is text.length; perp is what estimatePerplexity
\* computes for the (truncated) text, in thousandths of a perplexity unit;
\* gen is the clamped rawScore processGenerationResult derives from the text
\* and the continuation, in thousandths. Both are logarithm and word-set
\* computations over the text, taken here as attributes of the text.
\* gen0 is the same rawScore for an empty continuation (similarity 0).
\* The first text has 16 characters: it passes the length filter of
\* processRequest (15) and is shorter than the classifiers' minLength (20).
TextPool ==
  { [len |-> 16, perp |-> 16500, gen |-> 800, gen0 |-> 400],
    [len |-> 30, perp |-> 22900, gen |-> 700, gen0 |-> 250],
    [len |-> 600, perp |-> 57500, gen |-> 100, gen0 |-> 56] }

\* what one HTTP attempt can end with
Responses == {"ok", "r429", "r503", "r500", "timeout"}

\* the JSON body of a 200 response: a non-empty array of objects (ai and
\* human are the probabilities of its first AI-like and human-like label, -1
\* when it has no such label, as in an array of continuations), an empty
\* array, null, or a non-array object
Bodies ==
  { [kind |-> "labels", ai |-> a, human |-> h] :
      a \in {-1, 900}, h \in {-1, 400, 900} }
    \cup { [kind |-> k, ai |-> -1, human |-> -1] :
             k \in {"empty", "null", "object"} }

\* Array.isArray(data)
IsArray(body) == body.kind \in {"labels", "empty"}

\* a body comes with a 200 only
NoBody == [kind |-> "null", ai |-> -1, human |-> -1]
BodiesOf(resp) == IF resp = "ok" THEN Bodies ELSE {NoBody}

Abs(x) == IF x < 0 THEN -x ELSE x
Min(a, b) == IF a < b THEN a ELSE b
Max(a, b) == IF a > b THEN a ELSE b

\* a classifier that answers 0.5 when it has no answer
FailureResultHalf == [score |-> 500, confidence |-> 0]

\* the result of the catch blocks and of the too-short-text returns of
\* classifyText, scoreText and detectText, and of the rejected branch of the
\* batch operations: score 0, confidence 0
FailureResult == [score |-> 0, confidence |-> 0]

\* a label classifier that answers 0.5 with confidence 0 when no label of
\* the response matches
LabelScoreNeutral(body) ==
  IF body.ai < 0 /\ body.human < 0
  THEN [score |-> 500, confidence |-> 0]
  ELSE LET aiScore == IF body.ai < 0 THEN 0 ELSE body.ai
           humanScore == IF body.human < 0 THEN 0 ELSE body.human
           normalizedScore == IF aiScore > humanScore THEN aiScore
                              ELSE 1000 - humanScore
       IN [score |-> normalizedScore,
           confidence |-> Abs(normalizedScore - 500) * 2]

\* aiScore > humanScore ? aiScore : 1 - humanScore, confidence |s - 0.5| * 2,
\* with a missing label counted as 0
LabelScore(body) ==
  LET aiScore == IF body.ai < 0 THEN 0 ELSE body.ai
      humanScore == IF body.human < 0 THEN 0 ELSE body.human
      normalizedScore == IF aiScore > humanScore THEN aiScore
                         ELSE 1000 - humanScore
  IN [score |-> normalizedScore,
      confidence |-> Abs(normalizedScore - 500) * 2]

\* a perplexity confidence that is the bare distance ratio
PerplexityScoreOfUnclamped(text) ==
  [score |-> Max(0, Min(1000, 1000 - text.perp \div PerplexityThreshold)),
   confidence |->
      Abs(text.perp - PerplexityThreshold * 1000) \div PerplexityThreshold]

\* max(0, min(1, 1 - raw / threshold)) and min(1, |raw - threshold| / threshold)
PerplexityScoreOf(text) ==
  [score |-> Max(0, Min(1000, 1000 - text.perp \div PerplexityThreshold)),
   confidence |->
      Min(1000, Abs(text.perp - PerplexityThreshold * 1000)
                  \div PerplexityThreshold)]

\* processGenerationResult: the neutral result for an empty array, else the
\* score from the similarity with data[0].generated_text ('' when data is
\* not an array of continuations)
GenerationScoreOf(text, body) ==
  IF body.kind = "empty" THEN FailureResult
  ELSE LET raw == IF body.kind = "labels" THEN text.gen ELSE text.gen0
       IN [score |-> raw, confidence |-> Abs(raw - 500) * 2]

\* a promise of the batch that has not called the remote service yet.
\* attempts counts the iterations of the current request() call, last is
\* the outcome of its latest HTTP attempt, env and envError the envelope it
\* resolved with
NewTask ==
  [st |-> "pending", phase |-> "first", attempts |-> 0,
   last |-> "none", lastError |-> "none", exhausted |-> FALSE,
   env |-> "none", envError |-> "none", got |-> "none",
   model |-> 1, failedModels |-> {},
   body |-> NoBody, score |-> 0, confidence |-> 0]

\* the per-text promise resolves with res; got and body record how: "short"
\* without a request, "failed" after a failed request, and for a usable 200
\* the signal it was scored from with the body received
Fulfil(task, res, how, body) ==
  [task EXCEPT !.st = "fulfilled", !.score = res.score,
               !.confidence = res.confidence, !.got = how, !.body = body]

\* a start that sends a request for every text, however short
StartTaskAlwaysRequests(text) == NewTask

\* the synchronous start of classifyText / scoreText / detectText: a text
\* shorter than minLength resolves at once without a request
StartTask(text) ==
  IF text.len < MinLength THEN Fulfil(NewTask, FailureResult, "short", NoBody)
  ELSE NewTask

\* the error field of the failure envelope of request()
EnvelopeError(task) ==
  IF task.lastError = "none" THEN "Max retries exceeded" ELSE task.lastError

\* detectText gives up at the first model that fails
ModelFailedGivesUp(task) ==
  Fulfil([task EXCEPT !.failedModels = @ \cup {task.model}],
         FailureResult, "failed", NoBody)

\* detectWithModel threw for the task's current model: the catch of
\* detectText goes on with the next model of the list, and after the last
\* one detectText returns the default result
ModelFailed(task) ==
  IF task.model < NumModels
  THEN [NewTask EXCEPT !.model = task.model + 1,
                       !.failedModels = task.failedModels \cup {task.model}]
  ELSE Fulfil([task EXCEPT !.failedModels = @ \cup {task.model}],
              FailureResult, "failed", NoBody)

\* what classifyText (bert), scoreText (perplexity) and detectText /
\* detectWithModel (aidetector) do with the envelope request() resolved with;
\* success is the envelope's success flag, body its data
OnEnvelope(kind, text, task, success, body) ==
  CASE kind = "bert" ->
         IF success /\ IsArray(body)
         THEN Fulfil(task, LabelScore(body), "labels", body)
         ELSE Fulfil(task, FailureResult, "failed", NoBody)
    [] kind = "perplexity" ->
         IF success /\ body.kind # "null"
         THEN Fulfil(task, PerplexityScoreOf(text), "perplexity", body)
         ELSE Fulfil(task, FailureResult, "failed", NoBody)
    [] OTHER ->
         IF task.phase = "first"
         THEN IF success /\ IsArray(body)
              THEN Fulfil(task, LabelScore(body), "labels", body)
              ELSE IF success /\ body.kind = "object"
                   \* data.find is not a function: thrown past the
                   \* generation attempt, rethrown by detectWithModel
                   THEN ModelFailed(task)
                   \* generateText: a new request() call
                   ELSE [NewTask EXCEPT !.phase = "second",
                                        !.model = task.model,
                                        !.failedModels = task.failedModels]
         ELSE IF success /\ body.kind # "null"
              THEN Fulfil(task, GenerationScoreOf(text, body), "generation",
                          body)
              \* 'Both classification and generation failed'
              ELSE ModelFailed(task)

\* a transport that goes on retrying a 429 or a 503 whatever the attempt count
AttemptNoLimit(kind, text, task, resp, body) ==
  LET t1 == [task EXCEPT !.attempts = @ + 1, !.last = resp,
                         !.lastError =
                            CASE resp = "r500" -> "HuggingFace API error"
                              [] resp = "timeout" -> "aborted"
                              [] OTHER -> @]
      succeeded == [t1 EXCEPT !.env = "success", !.envError = "none"]
      failed == [t1 EXCEPT !.exhausted = TRUE, !.env = "failure",
                           !.envError = EnvelopeError(t1)]
  IN IF resp = "ok" THEN OnEnvelope(kind, text, succeeded, TRUE, body)
     ELSE IF resp \in {"r429", "r503"} \/ t1.attempts < MaxRetries THEN t1
     ELSE OnEnvelope(kind, text, failed, FALSE, body)

\* a transport that rethrows the error of its last attempt
AttemptRethrows(kind, text, task, resp, body) ==
  LET t1 == [task EXCEPT !.attempts = @ + 1, !.last = resp,
                         !.lastError =
                            CASE resp = "r500" -> "HuggingFace API error"
                              [] resp = "timeout" -> "aborted"
                              [] OTHER -> @]
      succeeded == [t1 EXCEPT !.env = "success", !.envError = "none"]
      failed == [t1 EXCEPT !.exhausted = TRUE, !.env = "failure",
                           !.envError = EnvelopeError(t1)]
  IN IF resp = "ok" THEN OnEnvelope(kind, text, succeeded, TRUE, body)
     ELSE IF t1.attempts < MaxRetries THEN t1
     ELSE IF resp \in {"r500", "timeout"}
          THEN [t1 EXCEPT !.st = "rejected", !.exhausted = TRUE]
          ELSE OnEnvelope(kind, text, failed, FALSE, body)

\* one iteration of the for loop of HuggingFaceClient.request for the
\* task's request, with the HTTP outcome resp (and body, on a 200; a
\* timeout stands for every rejection inside the try block: abort, network
\* error), and the continuation of its caller when request() resolves
Attempt(kind, text, task, resp, body) ==
  LET t1 == [task EXCEPT !.attempts = @ + 1, !.last = resp,
                         !.lastError =
                            CASE resp = "r500" -> "HuggingFace API error"
                              [] resp = "timeout" -> "aborted"
                              [] OTHER -> @]
      succeeded == [t1 EXCEPT !.env = "success", !.envError = "none"]
      failed == [t1 EXCEPT !.exhausted = TRUE, !.env = "failure",
                           !.envError = EnvelopeError(t1)]
  IN IF resp = "ok" THEN OnEnvelope(kind, text, succeeded, TRUE, body)
     ELSE IF t1.attempts < MaxRetries THEN t1
     ELSE OnEnvelope(kind, text, failed, FALSE, body)

\* texts.map(async ({id, text}) => ...) of classifyTexts / scoreTexts /
\* detectTexts: every per-text call is started
BatchStart(kind, texts) ==
  /\ batchPc = "idle"
  /\ batchPc' = "running"
  /\ batchKind' = kind
  /\ batchTexts' = texts
  /\ batchTask' = [k \in 1..Len(texts) |-> StartTask(texts[k])]
  /\ batchOut' = <<>>
  /\ UNCHANGED offBatch

\* one HTTP attempt of one pending per-text call
TaskAttempt(k, resp, body) ==
  /\ batchPc = "running"
  /\ k \in 1..Len(batchTask)
  /\ batchTask[k].st = "pending"
  /\ batchTask' = [batchTask EXCEPT
                     ![k] = Attempt(batchKind, batchTexts[k], @, resp, body)]
  /\ UNCHANGED <<batchPc, batchKind, batchTexts, batchOut>>
  /\ UNCHANGED offBatch

\* results.map(...) after Promise.allSettled: the value of a fulfilled
\* promise, the neutral entry under texts[index].id for a rejected one
Settled(texts, tasks) ==
  [k \in 1..Len(texts) |->
     IF tasks[k].st = "fulfilled"
     THEN [id |-> texts[k].id, score |-> tasks[k].score,
           confidence |-> tasks[k].confidence]
     ELSE [id |-> texts[k].id, score |-> FailureResult.score,
           confidence |-> FailureResult.confidence]]

\* await Promise.allSettled(...) resolved: the batch call returns
BatchCollect ==
  /\ batchPc = "running"
  /\ \A k \in 1..Len(batchTask) : batchTask[k].st # "pending"
  /\ batchPc' = "done"
  /\ batchOut' = Settled(batchTexts, batchTask)
  /\ UNCHANGED <<batchKind, batchTexts, batchTask>>
  /\ UNCHANGED offBatch

\* the caller takes the array; the classifier can be called again
BatchReturn ==
  /\ batchPc = "done"
  /\ batchPc' = "idle"
  /\ batchKind' = "none"
  /\ batchTexts' = <<>>
  /\ batchTask' = <<>>
  /\ batchOut' = <<>>
  /\ UNCHANGED offBatch

\* the batches of the model: 1..MaxBatch texts of TextPool under distinct ids
BatchInputs ==
  UNION { { [k \in 1..n |-> [id |-> BatchIds[k], len |-> f[k].len,
                              perp |-> f[k].perp, gen |-> f[k].gen,
                              gen0 |-> f[k].gen0]] :
              f \in [1..n -> TextPool] } : n \in 1..MaxBatch }

\* ------------------------------------------------------ scoring pipeline
\* bound of the model: the number of comments one fetch returns
MaxItems == 2

\* minLength of the BPC DEFAULT_CONFIG and the orchestrator's length filter
BpcMinLength == 15
FilterMinLength == 15
\* botThreshold and humanThreshold of the BPC DEFAULT_CONFIG, in millibits
BotThreshold == 1500
HumanThreshold == 2500
\* confidenceThreshold and inconclusiveThreshold of the scoring DEFAULT_CONFIG
ConfidenceThreshold == 600
InconclusiveThreshold == 300
\* DEFAULT_WEIGHTS
WeightBpc == 150
WeightPerplexity == 300
WeightBert == 300
WeightAiDetector == 250

\* an optional number that is undefined
Absent == -1

\* The comments of the model. len is body.length, trimLen the length of
\* body.trim(), entropy the Shannon entropy of the characters of the
\* whitespace-normalised body in millibits (what calculateBPC computes by
\* logarithms), perp as in TextPool. Bodies with these values:
\*   "hi"                               2 chars
\*   "      ok  ok       "             19 chars, 6 trimmed
\*   15 x "a"                          entropy 0
\*   15 x "a" + "b"                    entropy 0.337
\*   20 x "a" + 4 x "b"                entropy 0.650
\*   "abcdabcdabcdabcdabcdabcdabcdab"  entropy 1.997
\*   a varied 200-character sentence   entropy 4.2
CommentPool ==
  { [len |-> 2, trimLen |-> 2, entropy |-> 1000, perp |-> 1400],
    [len |-> 19, trimLen |-> 6, entropy |-> 1522, perp |-> 19800],
    [len |-> 15, trimLen |-> 15, entropy |-> 0, perp |-> 5400],
    [len |-> 16, trimLen |-> 16, entropy |-> 337, perp |-> 5500],
    [len |-> 24, trimLen |-> 24, entropy |-> 650, perp |-> 6400],
    [len |-> 30, trimLen |-> 30, entropy |-> 1997, perp |-> 6800],
    [len |-> 200, trimLen |-> 200, entropy |-> 4200, perp |-> 46400] }

\* BPC_NORMALIZATION, in millibits
MinBPC == 500
MaxBPC == 5000
BotRangeLow == 500
BotRangeHigh == 1500
HumanRangeLow == 2000

\* normalizeBPCScore, in thousandths (each product is divided last, rounding
\* down)
normalizeBPCScore(rawBPC) ==
  IF rawBPC <= 0 THEN 0
  ELSE LET clampedBPC == Max(MinBPC, Min(MaxBPC, rawBPC))
       IN IF clampedBPC <= BotRangeHigh
          THEN 800 + (200 * (clampedBPC - BotRangeLow))
                       \div (BotRangeHigh - BotRangeLow)
          ELSE IF clampedBPC <= HumanRangeLow
          THEN LET inconclusiveRange == HumanRangeLow - BotRangeHigh
               IN 200 + (600 * (inconclusiveRange
                                  - (clampedBPC - BotRangeHigh)))
                          \div inconclusiveRange
          ELSE LET humanRange == MaxBPC - HumanRangeLow
               IN (200 * (humanRange
                            - Min(humanRange, clampedBPC - HumanRangeLow)))
                    \div humanRange

\* calculateBPC: 0 below the minimum length, else the entropy
calculateBPC(text) == IF text.len < BpcMinLength THEN 0 ELSE text.entropy

\* an analyzeBPC whose human band starts at humanThreshold itself
analyzeBPCInclusive(text) ==
  IF text.len < BpcMinLength
  THEN [bpcScore |-> 0, normalizedScore |-> 0, confidence |-> "low",
        isBot |-> FALSE, isHuman |-> FALSE, isInconclusive |-> TRUE]
  ELSE LET bpcScore == calculateBPC(text)
           isBot == bpcScore < BotThreshold
           isHuman == bpcScore >= HumanThreshold
       IN [bpcScore |-> bpcScore,
           normalizedScore |-> normalizeBPCScore(bpcScore),
           confidence |-> IF isBot \/ isHuman THEN "high" ELSE "medium",
           isBot |-> isBot, isHuman |-> isHuman,
           isInconclusive |-> ~isBot /\ ~isHuman]

\* analyzeBPC with the default configuration
analyzeBPC(text) ==
  IF text.len < BpcMinLength
  THEN [bpcScore |-> 0, normalizedScore |-> 0, confidence |-> "low",
        isBot |-> FALSE, isHuman |-> FALSE, isInconclusive |-> TRUE]
  ELSE LET bpcScore == calculateBPC(text)
           isBot == bpcScore < BotThreshold
           isHuman == bpcScore > HumanThreshold
       IN [bpcScore |-> bpcScore,
           normalizedScore |-> normalizeBPCScore(bpcScore),
           confidence |-> IF isBot \/ isHuman THEN "high" ELSE "medium",
           isBot |-> isBot, isHuman |-> isHuman,
           isInconclusive |-> ~isBot /\ ~isHuman]

\* initial summaries that carry classifier scores of 0
InitialSummaryZeroed(k, text) ==
  LET analysis == analyzeBPC(text)
  IN [commentId |-> k,
      score |-> analysis.bpcScore,
      bpcScore |-> analysis.bpcScore,
      perplexityScore |-> 0,
      bertScore |-> 0,
      aiDetectorScore |-> Absent,
      stage |-> "bpc",
      confidence |-> CASE analysis.confidence = "high" -> 1000
                       [] analysis.confidence = "medium" -> 500
                       [] OTHER -> 0,
      isInconclusive |-> analysis.isInconclusive,
      usedParentContext |-> FALSE]

\* the summary processRequest creates for a valid comment from its BPC
\* analysis: score and bpcScore are both analysis.bpcScore
InitialSummary(k, text) ==
  LET analysis == analyzeBPC(text)
  IN [commentId |-> k,
      score |-> analysis.bpcScore,
      bpcScore |-> analysis.bpcScore,
      perplexityScore |-> Absent,
      bertScore |-> Absent,
      aiDetectorScore |-> Absent,
      stage |-> "bpc",
      confidence |-> CASE analysis.confidence = "high" -> 1000
                       [] analysis.confidence = "medium" -> 500
                       [] OTHER -> 0,
      isInconclusive |-> analysis.isInconclusive,
      usedParentContext |-> FALSE]

\* an escalation test that sends every classified summary on, whatever its
\* confidence
needsFurtherAnalysisAnyConfidence(c) ==
  IF c.stage = "bpc" /\ c.bpcScore # Absent
  THEN /\ c.bpcScore >= InconclusiveThreshold
       /\ c.bpcScore <= 1000 - InconclusiveThreshold
  ELSE c.stage = "ml"

\* CompositeScorer.needsFurtherAnalysis
needsFurtherAnalysis(c) ==
  IF c.stage = "bpc" /\ c.bpcScore # Absent
  THEN /\ c.bpcScore >= InconclusiveThreshold
       /\ c.bpcScore <= 1000 - InconclusiveThreshold
  ELSE c.stage = "ml" /\ c.confidence < ConfidenceThreshold

RECURSIVE SumSeq(_)
SumSeq(q) == IF q = <<>> THEN 0 ELSE Head(q) + SumSeq(Tail(q))

\* a calculateScore that admits every remote score that is present
calculateScoreNoGate(c) ==
  IF c.stage = "bpc" /\ c.bpcScore # Absent THEN c.bpcScore
  ELSE IF c.stage \in {"ml", "context"}
  THEN LET admit(v) == v # Absent
           s1 == IF c.bpcScore # Absent
                 THEN <<[s |-> c.bpcScore, w |-> WeightBpc]>> ELSE <<>>
           s2 == IF admit(c.perplexityScore)
                 THEN <<[s |-> c.perplexityScore, w |-> WeightPerplexity]>>
                 ELSE <<>>
           s3 == IF admit(c.bertScore)
                 THEN <<[s |-> c.bertScore, w |-> WeightBert]>> ELSE <<>>
           s4 == IF admit(c.aiDetectorScore)
                 THEN <<[s |-> c.aiDetectorScore, w |-> WeightAiDetector]>>
                 ELSE <<>>
           all == s1 \o s2 \o s3 \o s4
           totalWeight == SumSeq([j \in 1..Len(all) |-> all[j].w])
           weightedSum == SumSeq([j \in 1..Len(all) |-> all[j].s * all[j].w])
       IN IF Len(all) > 1 /\ totalWeight > 0
          THEN weightedSum \div totalWeight
          ELSE IF all = <<>> THEN 0 ELSE all[1].s
  ELSE 0

\* CompositeScorer.calculateScore
calculateScore(c) ==
  IF c.stage = "bpc" /\ c.bpcScore # Absent THEN c.bpcScore
  ELSE IF c.stage \in {"ml", "context"}
  THEN LET admit(v) == v # Absent /\ c.confidence >= ConfidenceThreshold
           s1 == IF c.bpcScore # Absent
                 THEN <<[s |-> c.bpcScore, w |-> WeightBpc]>> ELSE <<>>
           s2 == IF admit(c.perplexityScore)
                 THEN <<[s |-> c.perplexityScore, w |-> WeightPerplexity]>>
                 ELSE <<>>
           s3 == IF admit(c.bertScore)
                 THEN <<[s |-> c.bertScore, w |-> WeightBert]>> ELSE <<>>
           s4 == IF admit(c.aiDetectorScore)
                 THEN <<[s |-> c.aiDetectorScore, w |-> WeightAiDetector]>>
                 ELSE <<>>
           all == s1 \o s2 \o s3 \o s4
           totalWeight == SumSeq([j \in 1..Len(all) |-> all[j].w])
           weightedSum == SumSeq([j \in 1..Len(all) |-> all[j].s * all[j].w])
       IN IF Len(all) > 1 /\ totalWeight > 0
          THEN weightedSum \div totalWeight
          ELSE IF all = <<>> THEN 0 ELSE all[1].s
  ELSE 0

\* a calculateUserScore whose stage counters run over every comment
calculateUserScoreCountsAll(comments) ==
  LET valid == {k \in 1..Len(comments) : comments[k].score > 0}
      atStage(st) ==
        Cardinality({k \in 1..Len(comments) : comments[k].stage = st})
      total == Cardinality(valid)
      scores == [k \in 1..Len(comments) |->
                   IF k \in valid THEN comments[k].score ELSE 0]
  IN IF total = 0
     THEN [userScore |-> 0, confidence |-> 0, bpcAnalyzed |-> 0,
           mlAnalyzed |-> 0, contextAnalyzed |-> 0]
     ELSE [userScore |-> SumSeq(scores) \div total,
           confidence |->
              Min(1000, (atStage("bpc") * 300 + atStage("ml") * 700
                         + atStage("context") * 1000) \div total),
           bpcAnalyzed |-> atStage("bpc"),
           mlAnalyzed |-> atStage("ml"),
           contextAnalyzed |-> atStage("context")]

\* a calculateUserScore that averages over every comment, the ones with
\* score 0 included
calculateUserScoreAllItems(comments) ==
  LET valid == 1..Len(comments)
      atStage(st) == Cardinality({k \in valid : comments[k].stage = st})
      total == Cardinality(valid)
      scores == [k \in 1..Len(comments) |-> comments[k].score]
  IN IF total = 0
     THEN [userScore |-> 0, confidence |-> 0, bpcAnalyzed |-> 0,
           mlAnalyzed |-> 0, contextAnalyzed |-> 0]
     ELSE [userScore |-> SumSeq(scores) \div total,
           confidence |->
              Min(1000, (atStage("bpc") * 300 + atStage("ml") * 700
                         + atStage("context") * 1000) \div total),
           bpcAnalyzed |-> atStage("bpc"),
           mlAnalyzed |-> atStage("ml"),
           contextAnalyzed |-> atStage("context")]

\* CompositeScorer.calculateUserScore: the comments with score > 0, their
\* stage counts, the mean score and the stage-weighted confidence
calculateUserScore(comments) ==
  LET valid == {k \in 1..Len(comments) : comments[k].score > 0}
      atStage(st) == Cardinality({k \in valid : comments[k].stage = st})
      total == Cardinality(valid)
      scores == [k \in 1..Len(comments) |->
                   IF k \in valid THEN comments[k].score ELSE 0]
  IN IF total = 0
     THEN [userScore |-> 0, confidence |-> 0, bpcAnalyzed |-> 0,
           mlAnalyzed |-> 0, contextAnalyzed |-> 0]
     ELSE [userScore |-> SumSeq(scores) \div total,
           confidence |->
              Min(1000, (atStage("bpc") * 300 + atStage("ml") * 700
                         + atStage("context") * 1000) \div total),
           bpcAnalyzed |-> atStage("bpc"),
           mlAnalyzed |-> atStage("ml"),
           contextAnalyzed |-> atStage("context")]

\* how the remote service treats the classifier requests for one text: the
\* generation request of the perplexity scorer succeeds or not, and the
\* classification request gets a body (NoBody when it fails)
RemoteOutcomes == [ppOk : BOOLEAN, body : Bodies]

\* PerplexityScorer.scoreText and BertClassifier.classifyText on a text
scoreText(text, out) ==
  IF text.len < MinLength \/ ~out.ppOk THEN FailureResult
  ELSE PerplexityScoreOf(text)

classifyText(text, out) ==
  IF text.len < MinLength \/ ~IsArray(out.body) THEN FailureResult
  ELSE LabelScore(out.body)

\* no classifier result was applied to the summary
NoResults ==
  [pp |-> [score |-> Absent, confidence |-> Absent],
   bert |-> [score |-> Absent, confidence |-> Absent],
   ppOk |-> FALSE, bertOk |-> FALSE]

\* the two results the update loop reads for a text, and whether each comes
\* from a response of the service or from a catch / too-short return
ResultsOf(text, out) ==
  [pp |-> scoreText(text, out),
   bert |-> classifyText(text, out),
   ppOk |-> text.len >= MinLength /\ out.ppOk,
   bertOk |-> text.len >= MinLength /\ IsArray(out.body)]

\* requests the two classifiers issue for a text (at least one attempt each
\* unless the text is shorter than minLength)
ClassifierCalls(text) == IF text.len < MinLength THEN 0 ELSE 2

\* the promotion of one summary from the results of the two classifiers
Promote(c, stage, pp, bert, usedParent) ==
  LET c1 == [c EXCEPT !.perplexityScore = pp.score,
                      !.bertScore = bert.score,
                      !.stage = stage,
                      !.usedParentContext = usedParent,
                      !.confidence = Max(pp.confidence, bert.confidence)]
  IN [c1 EXCEPT !.score = calculateScore(c1)]

NoStats ==
  [userScore |-> 0, confidence |-> 0, bpcAnalyzed |-> 0, mlAnalyzed |-> 0,
   contextAnalyzed |-> 0]

\* the fetches of the model: 0..MaxItems comments of CommentPool
FetchResults == UNION { [1..n -> CommentPool] : n \in 0..MaxItems }

RECURSIVE FilterValid(_)
\* comments.filter(c => (c.body || '').trim().length >= 15)
FilterValid(q) ==
  IF q = <<>> THEN <<>>
  ELSE IF Head(q).trimLen >= FilterMinLength
       THEN <<Head(q)>> \o FilterValid(Tail(q))
       ELSE FilterValid(Tail(q))

\* the request document was read (its includeParent field is flag) and
\* fetchUserComments resolved: the filter, the 'No valid comments' throw,
\* stage 1 (batchAnalyzeBPC, tokenizeComments) and the initial summaries
PipeFetch(comments, flag) ==
  /\ pipePc = "idle"
  /\ includeParent' = flag
  /\ LET valid == FilterValid(comments)
     IN /\ totalCount' = Len(comments)
        /\ validComments' = valid
        /\ IF valid = <<>>
           THEN /\ pipePc' = "threw"
                /\ perComment' = <<>>
           ELSE /\ pipePc' = "stage2"
                /\ perComment' = [k \in 1..Len(valid) |->
                                    InitialSummary(k, valid[k])]
        /\ remoteCalls' = [k \in 1..Len(valid) |-> 0]
        /\ lastResults' = [k \in 1..Len(valid) |-> NoResults]
  /\ UNCHANGED <<ctxPending, enteredMl, enteredCtx, afterMl, mlPending,
                 lookups, userStats>>
  /\ UNCHANGED offPipe

\* a stage 2 that sends every valid comment to the classifiers
PipeStage2StartAll ==
  /\ pipePc = "stage2"
  /\ mlPending' = 1..Len(perComment)
  /\ remoteCalls' =
       [k \in 1..Len(perComment) |->
          remoteCalls[k] + ClassifierCalls(validComments[k])]
  /\ pipePc' = "ml"
  /\ UNCHANGED <<validComments, totalCount, perComment, ctxPending, enteredMl,
                 enteredCtx, afterMl, lastResults, lookups, userStats>>
  /\ UNCHANGED <<includeParent, offPipe>>

\* stage 2, up to the await: the selection, and the two classifier batches
\* started over the selected texts
PipeStage2Start ==
  /\ pipePc = "stage2"
  /\ LET inconclusiveComments ==
           {k \in 1..Len(perComment) : needsFurtherAnalysis(perComment[k])}
     IN /\ mlPending' = inconclusiveComments
        /\ remoteCalls' =
             [k \in 1..Len(perComment) |->
                IF k \in inconclusiveComments
                THEN remoteCalls[k] + ClassifierCalls(validComments[k])
                ELSE remoteCalls[k]]
  /\ pipePc' = "ml"
  /\ UNCHANGED <<validComments, totalCount, perComment, ctxPending, enteredMl,
                 enteredCtx, afterMl, lastResults, lookups, userStats>>
  /\ UNCHANGED <<includeParent, offPipe>>

\* the scoreText and classifyText promises of one selected text settled
PipeMlSettle(k, out) ==
  /\ pipePc = "ml"
  /\ k \in mlPending
  /\ mlPending' = mlPending \ {k}
  /\ lastResults' = [lastResults EXCEPT ![k] = ResultsOf(validComments[k], out)]
  /\ UNCHANGED <<pipePc, validComments, totalCount, perComment, ctxPending,
                 enteredMl, enteredCtx, afterMl, lookups, remoteCalls,
                 userStats>>
  /\ UNCHANGED <<includeParent, offPipe>>

\* stage 2, after await Promise.all of the two batches: the update loop over
\* inconclusiveComments
PipeStage2 ==
  /\ pipePc = "ml"
  /\ mlPending = {}
  /\ LET inconclusiveComments ==
           {k \in 1..Len(perComment) : needsFurtherAnalysis(perComment[k])}
     IN /\ perComment' =
             [k \in 1..Len(perComment) |->
                IF k \in inconclusiveComments
                THEN Promote(perComment[k], "ml", lastResults[k].pp,
                             lastResults[k].bert, FALSE)
                ELSE perComment[k]]
        /\ enteredMl' = inconclusiveComments
        /\ afterMl' = perComment'
  /\ pipePc' = "stage3"
  /\ UNCHANGED <<validComments, totalCount, ctxPending, enteredCtx,
                 lastResults, lookups, mlPending, remoteCalls, userStats>>
  /\ UNCHANGED <<includeParent, offPipe>>

\* a stage 3 that starts a context task for every summary
PipeStage3SelectAll ==
  /\ pipePc = "stage3"
  /\ ctxPending' = 1..Len(perComment)
  /\ lookups' = ctxPending'
  /\ pipePc' = "context"
  /\ UNCHANGED <<validComments, totalCount, perComment, enteredMl, enteredCtx,
                 afterMl, lastResults, mlPending, remoteCalls, userStats>>
  /\ UNCHANGED <<includeParent, offPipe>>

\* stage 3: the selection of the still inconclusive summaries and the start
\* of one context task for each
PipeStage3Select ==
  /\ pipePc = "stage3"
  /\ ctxPending' =
       {k \in 1..Len(perComment) : needsFurtherAnalysis(perComment[k])}
  /\ lookups' = ctxPending'
  /\ pipePc' = "context"
  /\ UNCHANGED <<validComments, totalCount, perComment, enteredMl, enteredCtx,
                 afterMl, lastResults, mlPending, remoteCalls, userStats>>
  /\ UNCHANGED <<includeParent, offPipe>>

\* the parent texts fetchParentContext can resolve with: len is the length
\* of the parent text, perp the perplexity estimate of the combined text
\* (the last one a long run of one-letter words, 256 words in the 512
\* characters kept: 10 ln 256 + 2 ln 512 = 67.9)
ParentPool ==
  { [len |-> 1, perp |-> 6000], [len |-> 100, perp |-> 40100],
    [len |-> 600, perp |-> 67900] }

\* a stage 3 task that marks its summary as context-analysed although no
\* context was found
PipeContextAbsentMarks(k) ==
  /\ pipePc = "context"
  /\ k \in ctxPending
  /\ ctxPending' = ctxPending \ {k}
  /\ perComment' = [perComment EXCEPT ![k].usedParentContext = TRUE]
  /\ UNCHANGED <<pipePc, validComments, totalCount, enteredMl,
                 enteredCtx, afterMl, lastResults, mlPending, lookups,
                 remoteCalls, userStats>>
  /\ UNCHANGED <<includeParent, offPipe>>

\* one stage 3 task with no usable context: fetchParentContext resolved with
\* null or an empty text, or the task's try block threw
PipeContextAbsent(k) ==
  /\ pipePc = "context"
  /\ k \in ctxPending
  /\ ctxPending' = ctxPending \ {k}
  /\ UNCHANGED <<pipePc, validComments, totalCount, perComment, enteredMl,
                 enteredCtx, afterMl, lastResults, mlPending, lookups,
                 remoteCalls, userStats>>
  /\ UNCHANGED <<includeParent, offPipe>>

\* one stage 3 task whose parent context was found: both classifiers run on
\* parent + "\n\n" + body and the summary is promoted to 'context'
PipeContextFound(k, parent, out) ==
  /\ pipePc = "context"
  /\ k \in ctxPending
  /\ LET combinedText == [len |-> parent.len + 2 + validComments[k].len,
                          perp |-> parent.perp]
     IN /\ perComment' =
             [perComment EXCEPT
                ![k] = Promote(@, "context", scoreText(combinedText, out),
                               classifyText(combinedText, out), TRUE)]
        /\ remoteCalls' =
             [remoteCalls EXCEPT ![k] = @ + ClassifierCalls(combinedText)]
        /\ lastResults' =
             [lastResults EXCEPT ![k] = ResultsOf(combinedText, out)]
  /\ ctxPending' = ctxPending \ {k}
  /\ enteredCtx' = enteredCtx \cup {k}
  /\ UNCHANGED <<pipePc, validComments, totalCount, enteredMl, afterMl,
                 mlPending, lookups, userStats>>
  /\ UNCHANGED <<includeParent, offPipe>>

\* a user aggregate computed without awaiting the stage 3 tasks
PipeAggregateEarly ==
  /\ pipePc = "context"
  /\ userStats' = calculateUserScore(perComment)
  /\ pipePc' = "done"
  /\ UNCHANGED <<validComments, totalCount, perComment, ctxPending, enteredMl,
                 enteredCtx, afterMl, lastResults, mlPending, lookups,
                 remoteCalls>>
  /\ UNCHANGED <<includeParent, offPipe>>

\* await Promise.all(contextPromises) resolved, then calculateUserScore and
\* the result document
PipeAggregate ==
  /\ pipePc = "context"
  /\ ctxPending = {}
  /\ userStats' = calculateUserScore(perComment)
  /\ pipePc' = "done"
  /\ UNCHANGED <<validComments, totalCount, perComment, ctxPending, enteredMl,
                 enteredCtx, afterMl, lastResults, mlPending, lookups,
                 remoteCalls>>
  /\ UNCHANGED <<includeParent, offPipe>>

PipeIdle ==
  /\ pipePc = "idle"
  /\ validComments = <<>>
  /\ totalCount = 0
  /\ perComment = <<>>
  /\ ctxPending = {}
  /\ enteredMl = {}
  /\ enteredCtx = {}
  /\ afterMl = <<>>
  /\ lastResults = <<>>
  /\ mlPending = {}
  /\ lookups = {}
  /\ remoteCalls = <<>>
  /\ userStats = NoStats
  /\ includeParent = FALSE

\* the run is over (result document handed to the store, or the catch
\* block); the next request starts from fresh locals
PipeReset ==
  /\ pipePc \in {"done", "threw"}
  /\ pipePc' = "idle"
  /\ validComments' = <<>>
  /\ totalCount' = 0
  /\ perComment' = <<>>
  /\ ctxPending' = {}
  /\ enteredMl' = {}
  /\ enteredCtx' = {}
  /\ afterMl' = <<>>
  /\ lastResults' = <<>>
  /\ mlPending' = {}
  /\ lookups' = {}
  /\ remoteCalls' = <<>>
  /\ userStats' = NoStats
  /\ includeParent' = FALSE
  /\ UNCHANGED offPipe

\* ---------------------------------------------------- fetchUserComments
\* maxRetries of fetchWithRetry
FetchMaxRetries == 3
\* the cap Math.min(limit, 100) puts on the limit of the request URL
FetchLimitCap == 100

\* the maxItems of the requests of the model (the extension stores
\* Math.min(maxItems || 100, 100))
RequestCaps == {25, 60, 100}

\* the limit processRequest passes to fetchUserComments for a request with
\* this maxItems: the literal 100
RequestedLimit(maxItems) == 100

\* what one HTTP attempt of fetchWithRetry can end with: a 2xx response whose
\* body parses as a listing ("ok") or does not ("badjson"), a 429, another
\* non-OK status, or a rejected fetch (network error)
FetchResponses == {"ok", "badjson", "r429", "r503", "r500", "neterr"}

NoFetchStat ==
  [tokenReqs |-> 0, oauthReqs |-> 0, publicReqs |-> 0, oauthEnd |-> "none",
   maxItems |-> 0, urlLimit |-> 0, oauthLast |-> "none",
   publicLast |-> "none"]
NoFetchResult == [via |-> "none", count |-> 0, error |-> "none"]

\* processRequest calls fetchUserComments(userId, limit) for a request with
\* this maxItems; the URLs will carry Math.min(limit, 100);
\* getRedditOAuthToken comes first
FetchStart(maxItems) ==
  /\ fetchPc = "idle"
  /\ fetchPc' = "token"
  /\ fetchAttempt' = 0
  /\ fetchStat' =
       [NoFetchStat EXCEPT
          !.maxItems = maxItems,
          !.urlLimit = Min(RequestedLimit(maxItems), FetchLimitCap)]
  /\ fetchResult' = NoFetchResult
  /\ UNCHANGED tokenCached
  /\ UNCHANGED offFetch

\* getRedditOAuthToken returned: the cached token, or a new one from the
\* token endpoint, which is then cached
FetchTokenOk ==
  /\ fetchPc = "token"
  /\ fetchPc' = "oauth"
  /\ fetchStat' = [fetchStat EXCEPT
                     !.tokenReqs = IF tokenCached THEN @ ELSE @ + 1]
  /\ tokenCached' = TRUE
  /\ UNCHANGED <<fetchAttempt, fetchResult>>
  /\ UNCHANGED offFetch

\* getRedditOAuthToken threw (no credentials configured, the token request
\* rejected or was not OK): the catch of the OAuth block, then the public path
FetchTokenFail(requested) ==
  /\ fetchPc = "token"
  /\ ~tokenCached
  /\ fetchPc' = "public"
  /\ fetchStat' = [fetchStat EXCEPT
                     !.tokenReqs = IF requested THEN @ + 1 ELSE @,
                     !.oauthEnd = "tokenThrew"]
  /\ UNCHANGED <<fetchAttempt, fetchResult, tokenCached>>
  /\ UNCHANGED offFetch

\* what fetchWithRetry does with the outcome of the attempt numbered
\* attempt (from 0): "retry" after a 429 or a rejected fetch with attempts
\* left, "throw" after the last attempt rejected or was a 429, and else
\* "return" the response, whatever its status
RetryOutcome(attempt, resp) ==
  IF resp \in {"r429", "neterr"}
  THEN IF attempt < FetchMaxRetries - 1 THEN "retry" ELSE "throw"
  ELSE "return"

\* an OAuth path without a catch: what fetchWithRetry or the parsing throws
\* ends the call
FetchOAuthAttemptNoCatch(resp, n) ==
  /\ fetchPc = "oauth"
  /\ LET out == RetryOutcome(fetchAttempt, resp)
         stat == [fetchStat EXCEPT !.oauthReqs = @ + 1, !.oauthLast = resp]
     IN IF out = "retry"
        THEN /\ fetchAttempt' = fetchAttempt + 1
             /\ fetchStat' = stat
             /\ UNCHANGED <<fetchPc, fetchResult>>
        ELSE IF out = "return" /\ resp = "ok"
        THEN /\ fetchPc' = "returned"
             /\ fetchStat' = [stat EXCEPT !.oauthEnd = "ok"]
             /\ fetchResult' = [via |-> "oauth", count |-> n, error |-> "none"]
             /\ UNCHANGED fetchAttempt
        ELSE IF out = "throw" \/ resp = "badjson"
        THEN /\ fetchPc' = "threw"
             /\ fetchStat' = [stat EXCEPT !.oauthEnd = "requestThrew"]
             /\ fetchResult' = [via |-> "none", count |-> 0,
                                error |-> "Max retries exceeded"]
             /\ UNCHANGED fetchAttempt
        ELSE /\ fetchPc' = "public"
             /\ fetchAttempt' = 0
             /\ fetchStat' = [stat EXCEPT !.oauthEnd = "notOk"]
             /\ UNCHANGED fetchResult
  /\ UNCHANGED tokenCached
  /\ UNCHANGED offFetch

\* one attempt of the fetchWithRetry call of the OAuth path, and what
\* fetchUserComments does when that call is over: return the comments of an
\* OK response, else go on to the public path
FetchOAuthAttempt(resp, n) ==
  /\ fetchPc = "oauth"
  /\ LET out == RetryOutcome(fetchAttempt, resp)
         stat == [fetchStat EXCEPT !.oauthReqs = @ + 1, !.oauthLast = resp]
     IN IF out = "retry"
        THEN /\ fetchAttempt' = fetchAttempt + 1
             /\ fetchStat' = stat
             /\ UNCHANGED <<fetchPc, fetchResult>>
        ELSE IF out = "return" /\ resp = "ok"
        THEN /\ fetchPc' = "returned"
             /\ fetchStat' = [stat EXCEPT !.oauthEnd = "ok"]
             /\ fetchResult' = [via |-> "oauth", count |-> n, error |-> "none"]
             /\ UNCHANGED fetchAttempt
        ELSE /\ fetchPc' = "public"
             /\ fetchAttempt' = 0
             /\ fetchStat' =
                  [stat EXCEPT !.oauthEnd =
                     CASE out = "throw" -> "requestThrew"
                       [] resp = "badjson" -> "parseThrew"
                       [] OTHER -> "notOk"]
             /\ UNCHANGED fetchResult
  /\ UNCHANGED tokenCached
  /\ UNCHANGED offFetch

\* one attempt of the fetchWithRetry call of the public path, and what
\* fetchUserComments does when that call is over: return the comments of an
\* OK response, throw 'Reddit fetch failed' on another status, and let the
\* rejection of fetchWithRetry or of res.json() through
FetchPublicAttempt(resp, n) ==
  /\ fetchPc = "public"
  /\ LET out == RetryOutcome(fetchAttempt, resp)
     IN IF out = "retry"
        THEN /\ fetchAttempt' = fetchAttempt + 1
             /\ UNCHANGED <<fetchPc, fetchResult>>
        ELSE IF out = "return" /\ resp = "ok"
        THEN /\ fetchPc' = "returned"
             /\ fetchResult' = [via |-> "public", count |-> n, error |-> "none"]
             /\ UNCHANGED fetchAttempt
        ELSE /\ fetchPc' = "threw"
             /\ fetchResult' =
                  [via |-> "none", count |-> 0,
                   error |-> CASE resp = "neterr" -> "network error"
                               [] resp = "r429" -> "Max retries exceeded"
                               [] resp = "badjson" -> "invalid json"
                               [] OTHER -> "Reddit fetch failed"]
             /\ UNCHANGED fetchAttempt
  /\ fetchStat' = [fetchStat EXCEPT !.publicReqs = @ + 1,
                                    !.publicLast = resp]
  /\ UNCHANGED tokenCached
  /\ UNCHANGED offFetch

FetchIdle ==
  /\ fetchPc = "idle"
  /\ fetchAttempt = 0
  /\ fetchStat = NoFetchStat
  /\ fetchResult = NoFetchResult
  /\ tokenCached = FALSE

\* the caller took the outcome; by the next call the cached token may have
\* expired
FetchDone(expired) ==
  /\ fetchPc \in {"returned", "threw"}
  /\ fetchPc' = "idle"
  /\ fetchAttempt' = 0
  /\ fetchStat' = NoFetchStat
  /\ fetchResult' = NoFetchResult
  /\ tokenCached' = (tokenCached /\ ~expired)
  /\ UNCHANGED offFetch

\* --------------------------------------------------- fetchParentContext
\* bound of the model: the number of nested fetchParentContext calls one
\* lookup makes (the code follows a chain of comment replies of any length)
MaxChain == 11

\* what /api/info returns for the comment: no child, a comment whose
\* parent_id is a comment (t1_), a post (t3_), or neither
CtxItems == {"missing", "t1", "t3", "other"}
\* what /api/info returns for the post: no child, a post with a selftext or
\* a title, a post with neither
CtxPosts == {"missing", "text", "empty"}

NoCtxStat == [requests |-> 0, failure |-> "none"]

\* a stage 3 task calls fetchParentContext(comment.commentId)
CtxStart ==
  /\ ctxPc = "idle"
  /\ ctxPc' = "token"
  /\ ctxDepth' = 1
  /\ UNCHANGED <<ctxAttempt, ctxStat, ctxResult, ctxEffect, tokenCached>>
  /\ UNCHANGED offCtx

\* getRedditOAuthToken returned (cached or new)
CtxTokenOk ==
  /\ ctxPc = "token"
  /\ ctxPc' = "info"
  /\ ctxAttempt' = 0
  /\ tokenCached' = TRUE
  /\ UNCHANGED <<ctxDepth, ctxStat, ctxResult, ctxEffect>>
  /\ UNCHANGED offCtx

\* a lookup that lets a token failure through to its caller
CtxTokenFailThrows ==
  /\ ctxPc = "token"
  /\ ~tokenCached
  /\ ctxPc' = "threw"
  /\ ctxStat' = [ctxStat EXCEPT !.failure = "token"]
  /\ UNCHANGED <<ctxDepth, ctxAttempt, ctxResult, ctxEffect, tokenCached>>
  /\ UNCHANGED offCtx

\* getRedditOAuthToken threw: the catch block, then return null
CtxTokenFail ==
  /\ ctxPc = "token"
  /\ ~tokenCached
  /\ ctxPc' = "resolved"
  /\ ctxStat' = [ctxStat EXCEPT !.failure = "token"]
  /\ ctxResult' = "null"
  /\ UNCHANGED <<ctxDepth, ctxAttempt, ctxEffect, tokenCached>>
  /\ UNCHANGED offCtx

\* one attempt of the fetchWithRetry call for the comment, and what
\* fetchParentContext does when that call is over: null when it threw, when
\* the response is not OK or unreadable, when there is no comment or its
\* parent is neither a comment nor a post; a nested call for a parent
\* comment; the request for the post for a parent post
CtxInfoAttempt(resp, item) ==
  /\ ctxPc = "info"
  /\ (resp = "ok" /\ item = "t1") => ctxDepth < MaxChain
  /\ LET out == RetryOutcome(ctxAttempt, resp)
         fail(why) ==
           /\ ctxPc' = "resolved"
           /\ ctxResult' = "null"
           /\ ctxStat' = [requests |-> ctxStat.requests + 1, failure |-> why]
           /\ UNCHANGED <<ctxDepth, ctxAttempt>>
     IN CASE out = "retry" ->
               /\ ctxAttempt' = ctxAttempt + 1
               /\ ctxStat' = [ctxStat EXCEPT !.requests = @ + 1]
               /\ UNCHANGED <<ctxPc, ctxDepth, ctxResult>>
          [] out = "throw" -> fail("network")
          [] out = "return" /\ resp \in {"r500", "r503"} -> fail("notOk")
          [] out = "return" /\ resp = "badjson" -> fail("parse")
          [] out = "return" /\ resp = "ok" /\ item \in {"missing", "other"} ->
               fail("noParent")
          [] out = "return" /\ resp = "ok" /\ item = "t1" ->
               /\ ctxPc' = "token"
               /\ ctxDepth' = ctxDepth + 1
               /\ ctxStat' = [ctxStat EXCEPT !.requests = @ + 1]
               /\ UNCHANGED <<ctxAttempt, ctxResult>>
          [] OTHER ->
               /\ ctxPc' = "post"
               /\ ctxAttempt' = 0
               /\ ctxStat' = [ctxStat EXCEPT !.requests = @ + 1]
               /\ UNCHANGED <<ctxDepth, ctxResult>>
  /\ UNCHANGED <<ctxEffect, tokenCached>>
  /\ UNCHANGED offCtx

\* one attempt of the fetchWithRetry call for the post, and the end of
\* fetchParentContext: post.selftext || post.title || '' for a post, else null
CtxPostAttempt(resp, post) ==
  /\ ctxPc = "post"
  /\ LET out == RetryOutcome(ctxAttempt, resp)
         end(res, why) ==
           /\ ctxPc' = "resolved"
           /\ ctxResult' = res
           /\ ctxStat' = [requests |-> ctxStat.requests + 1, failure |-> why]
           /\ UNCHANGED ctxAttempt
     IN CASE out = "retry" ->
               /\ ctxAttempt' = ctxAttempt + 1
               /\ ctxStat' = [ctxStat EXCEPT !.requests = @ + 1]
               /\ UNCHANGED <<ctxPc, ctxResult>>
          [] out = "throw" -> end("null", "network")
          [] out = "return" /\ resp \in {"r500", "r503"} ->
               end("null", "notOk")
          [] out = "return" /\ resp = "badjson" -> end("null", "parse")
          [] out = "return" /\ resp = "ok" /\ post = "missing" ->
               end("null", "noPost")
          [] OTHER -> end(post, "none")
  /\ UNCHANGED <<ctxDepth, ctxEffect, tokenCached>>
  /\ UNCHANGED offCtx

\* the stage 3 task after await fetchParentContext: `if (parentContext)`
\* re-runs the classifiers (which catch their own failures) and promotes the
\* summary, else the summary is left as it is; the task's promise resolves
CtxTaskEnd ==
  /\ ctxPc = "resolved"
  /\ ctxPc' = "settled"
  /\ ctxEffect' = IF ctxResult = "text" THEN "promoted" ELSE "kept"
  /\ UNCHANGED <<ctxDepth, ctxAttempt, ctxStat, ctxResult, tokenCached>>
  /\ UNCHANGED offCtx

CtxIdle ==
  /\ ctxPc = "idle"
  /\ ctxDepth = 0
  /\ ctxAttempt = 0
  /\ ctxStat = NoCtxStat
  /\ ctxResult = "none"
  /\ ctxEffect = "none"

\* Promise.all took the task's outcome; by the next lookup the cached token
\* may have expired
CtxDone(expired) ==
  /\ ctxPc = "settled"
  /\ ctxPc' = "idle"
  /\ ctxDepth' = 0
  /\ ctxAttempt' = 0
  /\ ctxStat' = NoCtxStat
  /\ ctxResult' = "none"
  /\ ctxEffect' = "none"
  /\ tokenCached' = (tokenCached /\ ~expired)
  /\ UNCHANGED offCtx

\* ------------------------------------------- the poller on a long queue
\* bound of the model: the number of requests ever created in the runs that
\* look at the poller alone (one more than the batch size of the query)
NumPollDocs == 6

\* the requests of pqStatus that are queued, oldest first
PqQueued == SelectSeq([d \in 1..Len(pqStatus) |-> d],
                      LAMBDA d : pqStatus[d] = "queued")

\* a query without limit(5)
PqBatchNoLimit == PqQueued

\* where('status','==','queued').orderBy('createdAt','asc').limit(5)
PqBatch ==
  IF Len(PqQueued) <= PollLimit THEN PqQueued
  ELSE SubSeq(PqQueued, 1, PollLimit)

\* the extension adds a request with status queued
PqSubmit ==
  /\ Len(pqStatus) < NumPollDocs
  /\ pqStatus' = Append(pqStatus, "queued")
  /\ UNCHANGED <<pqPc, pqDocs, pqIdx, pqInFlight, pqStarted>>
  /\ UNCHANGED offPq

\* an invocation started by the HTTP trigger moves a queued request on
PqTriggerTakes(d) ==
  /\ d \in 1..Len(pqStatus)
  /\ pqStatus[d] = "queued"
  /\ pqStatus' = [pqStatus EXCEPT ![d] = "taken"]
  /\ UNCHANGED <<pqPc, pqDocs, pqIdx, pqInFlight, pqStarted>>
  /\ UNCHANGED offPq

\* the query of one poll cycle resolved, and the first handler call of the
\* for loop
PqQueryOk ==
  /\ pqPc = "query"
  /\ pqDocs' = PqBatch
  /\ IF PqBatch = <<>>
     THEN /\ pqPc' = "sleep"
          /\ pqIdx' = 0
          /\ pqInFlight' = {}
          /\ pqStarted' = <<>>
     ELSE /\ pqPc' = "handling"
          /\ pqIdx' = 1
          /\ pqInFlight' = {PqBatch[1]}
          /\ pqStarted' = <<PqBatch[1]>>
  /\ UNCHANGED pqStatus
  /\ UNCHANGED offPq

\* the query of one poll cycle rejected
PqQueryFail ==
  /\ pqPc = "query"
  /\ pqPc' = PollCatch
  /\ pqDocs' = <<>>
  /\ pqIdx' = 0
  /\ pqInFlight' = {}
  /\ pqStarted' = <<>>
  /\ UNCHANGED pqStatus
  /\ UNCHANGED offPq

\* await handler(doc.id) resolved (the request was processed, or was found
\* no longer queued): the next document of the batch, or the sleep
PqHandlerReturned ==
  /\ pqPc = "handling"
  /\ pqStatus' = [pqStatus EXCEPT ![pqDocs[pqIdx]] = "taken"]
  /\ IF pqIdx < Len(pqDocs)
     THEN /\ pqIdx' = pqIdx + 1
          /\ pqInFlight' = {pqDocs[pqIdx + 1]}
          /\ pqStarted' = Append(pqStarted, pqDocs[pqIdx + 1])
          /\ UNCHANGED pqPc
     ELSE /\ pqPc' = "sleep"
          /\ pqInFlight' = {}
          /\ UNCHANGED <<pqIdx, pqStarted>>
  /\ UNCHANGED pqDocs
  /\ UNCHANGED offPq

\* await handler(doc.id) rejected, before or after the handler wrote a
\* status: the catch, then the sleep
PqHandlerThrew(wrote) ==
  /\ pqPc = "handling"
  /\ pqStatus' = IF wrote THEN [pqStatus EXCEPT ![pqDocs[pqIdx]] = "taken"]
                 ELSE pqStatus
  /\ pqPc' = PollCatch
  /\ pqInFlight' = {}
  /\ UNCHANGED <<pqDocs, pqIdx, pqStarted>>
  /\ UNCHANGED offPq

\* the sleep of intervalMs is over: next cycle
PqSleep ==
  /\ pqPc = "sleep"
  /\ pqPc' = "query"
  /\ pqDocs' = <<>>
  /\ pqIdx' = 0
  /\ pqStarted' = <<>>
  /\ UNCHANGED <<pqStatus, pqInFlight>>
  /\ UNCHANGED offPq

PqIdle ==
  /\ pqStatus = <<>>
  /\ pqPc = "query"
  /\ pqDocs = <<>>
  /\ pqIdx = 0
  /\ pqInFlight = {}
  /\ pqStarted = <<>>

\* ------------------------------------------------ analyzeBPC on its own
\* bound of the model: entropies from 0 to EntropySteps tenths of a bit
EntropySteps == 60

\* the largest entropy a text of len characters can have: log2(len) bits,
\* in millibits, for the lengths of BpcLens
MaxEntropyOf(len) ==
  CASE len = 14 -> 3807
    [] len = 15 -> 3906
    [] OTHER -> 100 * EntropySteps

\* the texts analyzeBPC is applied to: one length below minLength, minLength
\* itself and a long text, each with every entropy its length allows
BpcLens == {14, 15, 80}
BpcTexts ==
  { t \in { [len |-> l, entropy |-> 100 * i] :
              l \in BpcLens, i \in 0..EntropySteps } :
      t.entropy <= MaxEntropyOf(t.len) }

NoAnalysis ==
  [bpcScore |-> 0, normalizedScore |-> 0, confidence |-> "none",
   isBot |-> FALSE, isHuman |-> FALSE, isInconclusive |-> FALSE]

\* one call analyzeBPC(text); the previous call is remembered
BpcAnalyze(text) ==
  /\ bpcPrevText' = bpcText
  /\ bpcPrev' = bpcAnalysis
  /\ bpcText' = text
  /\ bpcAnalysis' = analyzeBPC(text)
  /\ bpcCalls' = IF bpcCalls < 2 THEN bpcCalls + 1 ELSE bpcCalls
  /\ UNCHANGED offBpc

BpcIdle ==
  /\ bpcText = [len |-> 0, entropy |-> 0]
  /\ bpcAnalysis = NoAnalysis
  /\ bpcPrevText = [len |-> 0, entropy |-> 0]
  /\ bpcPrev = NoAnalysis
  /\ bpcCalls = 0

\* -------------------------------------------------------- specification
OrchInit ==
  /\ reqStatus = [r \in Requests |-> "missing"]
  /\ reqPlatform = [r \in Requests |-> "none"]
  /\ reqError = [r \in Requests |-> "none"]
  /\ createdOrder = <<>>
  /\ resultDoc = [r \in Requests |-> FALSE]
  /\ resultWrites = [r \in Requests |-> 0]
  /\ termWrites = [r \in Requests |-> 0]
  /\ inv = [i \in Invokers |-> IdleInv]
  /\ pollPc = "query"
  /\ pollDocs = <<>>
  /\ pollIdx = 0
  /\ pollLastExc = "none"
  /\ handed = {}

BatchIdle ==
  /\ batchPc = "idle"
  /\ batchKind = "none"
  /\ batchTexts = <<>>
  /\ batchTask = <<>>
  /\ batchOut = <<>>

Init == OrchInit /\ BatchIdle /\ PipeIdle /\ FetchIdle /\ CtxIdle /\ PqIdle /\ BpcIdle

Next ==
  \/ \E r \in Requests, p \in Platforms : Submit(r, p)
  \/ \E t \in Triggers, r \in Requests : TriggerStart(t, r)
  \/ \E t \in Triggers : ProcessStep(t)
  \/ \E t \in Triggers : TriggerRespond(t)
  \/ PollerNext

Spec == Init /\ [][Next]_vars

BatchNext ==
  \/ \E kind \in BatchKinds, texts \in BatchInputs : BatchStart(kind, texts)
  \/ \E k \in 1..MaxBatch, resp \in Responses :
       \E body \in BodiesOf(resp) : TaskAttempt(k, resp, body)
  \/ BatchCollect
  \/ BatchReturn

\* the classifier batch operations on their own
BatchSpec == Init /\ [][BatchNext]_vars

PipeNext ==
  \/ \E comments \in FetchResults, flag \in BOOLEAN :
       PipeFetch(comments, flag)
  \/ PipeStage2Start
  \/ \E k \in 1..MaxItems, out \in RemoteOutcomes : PipeMlSettle(k, out)
  \/ PipeStage2
  \/ PipeStage3Select
  \/ \E k \in 1..MaxItems : PipeContextAbsent(k)
  \/ \E k \in 1..MaxItems, parent \in ParentPool, out \in RemoteOutcomes :
       PipeContextFound(k, parent, out)
  \/ PipeAggregate
  \/ PipeReset

\* one run after another of the reddit branch of processRequest, from the
\* fetch to the user statistics
PipeSpec == Init /\ [][PipeNext]_vars

FetchNext ==
  \/ \E maxItems \in RequestCaps : FetchStart(maxItems)
  \/ FetchTokenOk
  \/ \E requested \in BOOLEAN : FetchTokenFail(requested)
  \/ \E resp \in FetchResponses, n \in 0..MaxItems : FetchOAuthAttempt(resp, n)
  \/ \E resp \in FetchResponses, n \in 0..MaxItems : FetchPublicAttempt(resp, n)
  \/ \E expired \in BOOLEAN : FetchDone(expired)

\* calls of fetchUserComments on their own
FetchSpec == Init /\ [][FetchNext]_vars

CtxNext ==
  \/ CtxStart
  \/ CtxTokenOk
  \/ CtxTokenFail
  \/ \E resp \in FetchResponses, item \in CtxItems : CtxInfoAttempt(resp, item)
  \/ \E resp \in FetchResponses, post \in CtxPosts : CtxPostAttempt(resp, post)
  \/ CtxTaskEnd
  \/ \E expired \in BOOLEAN : CtxDone(expired)

\* stage 3 tasks with their parent-context lookups on their own
CtxSpec == Init /\ [][CtxNext]_vars

PqNext ==
  \/ PqSubmit
  \/ \E d \in 1..NumPollDocs : PqTriggerTakes(d)
  \/ PqQueryOk
  \/ PqQueryFail
  \/ PqHandlerReturned
  \/ \E wrote \in BOOLEAN : PqHandlerThrew(wrote)
  \/ PqSleep

\* the polling loop on its own, with an abstract handler
PollSpec == Init /\ [][PqNext]_vars

BpcNext == \E text \in BpcTexts : BpcAnalyze(text)

\* calls of analyzeBPC, one after the other
BpcSpec == Init /\ [][BpcNext]_vars

\* the event loop runs every ready continuation of the poller and its timer
FairSpec == Spec /\ WF_vars(PollerNext)

\* as FairSpec, and the store answers the poll query again and again
QueryFairSpec == FairSpec /\ SF_vars(PollQueryOk)

\* ---------------------------------------------------------------- claims
\* the invocations of request r that are past the status guard
PastGuard(r) ==
  {i \in Invokers : /\ inv[i].req = r
                    /\ inv[i].pc \in {"updateFetching", "fetch", "saveResult",
                                      "markDone", "catch"}}

\* C1: of the concurrent invocations of one queued request exactly one gets
\* past the status guard, so the request has at most one invocation past the
\* guard, one terminal status write and one result write.
C1_ExactlyOneProceeds ==
  \A r \in Requests :
    /\ Cardinality(PastGuard(r)) <= 1
    /\ termWrites[r] <= 1
    /\ resultWrites[r] <= 1

StatusMoves ==
  {<<"missing", "queued">>, <<"queued", "fetching">>,
   <<"fetching", "done">>, <<"fetching", "error">>}

\* C2: a request's persisted status only moves queued->fetching->done or
\* queued->fetching->error; done and error are final and nothing goes back
\* to fetching or queued.
C2_StatusMonotone ==
  [][\A r \in Requests :
       \/ reqStatus'[r] = reqStatus[r]
       \/ <<reqStatus[r], reqStatus'[r]>> \in StatusMoves]_vars

\* C3: a result document exists only for a request whose status is done, and
\* it is written at most once per request.
C3_ResultOnlyWhenDone ==
  \A r \in Requests :
    /\ resultDoc[r] => reqStatus[r] = "done"
    /\ resultWrites[r] <= 1

\* C4: an invocation that ended by setting the request to error leaves no
\* result document, and errorMessage is the message of its exception.
C4_ErrorLeavesNoResult ==
  \A i \in Invokers :
    (inv[i].pc = "returned" /\ inv[i].outcome = "error"
       /\ reqStatus[inv[i].req] = "error")
    => /\ ~resultDoc[inv[i].req]
       /\ reqError[inv[i].req] = inv[i].exc

\* C5: an invocation that set the status to fetching has, when it completes,
\* left the request in done or error, whatever the platform.
C5_NeverLeftFetching ==
  \A i \in Invokers :
    (inv[i].pc \in {"returned", "threw"} /\ inv[i].setFetching)
    => reqStatus[inv[i].req] \in {"done", "error"}

\* C6: an invocation that read a missing document or a status other than
\* queued returns at once: it has written nothing and called nothing.
C6_SkippedIsNoOp ==
  \A i \in Invokers :
    inv[i].snap \in {"missing", "fetching", "done", "error"}
    => /\ inv[i].pc = "returned"
       /\ inv[i].outcome = "skipped"
       /\ inv[i].writes = 0
       /\ inv[i].calls = 0

\* an invocation found the request already being processed and returned
C6_Witness ==
  \E i \in Invokers :
    /\ inv[i].pc = "returned"
    /\ inv[i].snap = "fetching"
    /\ reqStatus[inv[i].req] = "fetching"

\* C7: an exception thrown by the handler or by the poll query never ends the
\* polling loop: the poller goes to its sleep and then starts another cycle.
C7_PollerSurvives ==
  /\ [](pollPc \in {"query", "handling", "sleep"})
  /\ [](pollLastExc # "none" => pollPc = "sleep")
  /\ (pollLastExc # "none") ~> (pollPc = "query")

\* the poller caught an exception thrown by the handler of a queued request
C7_Witness ==
  /\ pollLastExc # "none"
  /\ pollDocs # <<>>
  /\ pollPc = "sleep"

\* request r is in the batch of the current poll cycle
InPollDocs(r) == \E k \in 1..Len(pollDocs) : pollDocs[k] = r

\* C8: a queued request that shares a poll cycle with a failing request is
\* still eventually handed to the handler (or stops being queued).
C8_QueuedEventuallyHanded ==
  \A r \in Requests :
    (reqStatus[r] = "queued" /\ InPollDocs(r) /\ pollLastExc # "none")
      ~> (r \in handed \/ reqStatus[r] # "queued")

\* what the per-text call of this batch computes from a usable 200 response
OwnResult(task, text) ==
  CASE task.got = "labels" -> LabelScore(task.body)
    [] task.got = "perplexity" -> PerplexityScoreOf(text)
    [] OTHER -> GenerationScoreOf(text, task.body)

\* C9: a batch call resolves with one entry per input id, in order; the
\* entry of a text whose request failed after its retries is score 0,
\* confidence 0, and the entry of a text whose request succeeded is that
\* text's own result, whatever happened to the other texts.
C9_BatchIsolation ==
  batchPc = "done" =>
    /\ Len(batchOut) = Len(batchTexts)
    /\ \A k \in 1..Len(batchTexts) :
         /\ batchOut[k].id = batchTexts[k].id
         /\ batchTask[k].st = "fulfilled"
         /\ batchTask[k].got = "failed" =>
              (batchOut[k].score = 0 /\ batchOut[k].confidence = 0)
         /\ batchTask[k].got \in {"labels", "perplexity", "generation"} =>
              /\ batchOut[k].score = OwnResult(batchTask[k], batchTexts[k]).score
              /\ batchOut[k].confidence =
                   OwnResult(batchTask[k], batchTexts[k]).confidence

\* a batch returned in which B's request used up its retries and A's succeeded
C9_Witness ==
  /\ batchPc = "done"
  /\ Len(batchOut) = 2
  /\ batchTask[1].got = "labels"
  /\ batchOut[1].score = 900
  /\ batchTask[2].exhausted
  /\ batchTask[2].attempts = MaxRetries
  /\ batchOut[2].score = 0
  /\ batchOut[2].confidence = 0

\* C10: the summaries that entered stage ml (classified) are at most as many
\* as the summaries whose entropy band is inconclusive, and each of them has
\* the inconclusive band.
C10_ClassifiedWithinInconclusive ==
  pipePc \in {"stage3", "context", "done"} =>
    /\ Cardinality(enteredMl)
         <= Cardinality({k \in 1..Len(perComment) :
                           perComment[k].isInconclusive})
    /\ \A k \in enteredMl : perComment[k].isInconclusive

\* the summaries that, when the stage 2 loop ended, were at stage ml with a
\* confidence below confidenceThreshold
LowAfterMl ==
  {k \in 1..Len(afterMl) : /\ afterMl[k].stage = "ml"
                           /\ afterMl[k].confidence < ConfidenceThreshold}

\* C11: the summaries that entered stage context are among, and so at most
\* as many as, the summaries that were at stage ml with a confidence below
\* the confidence threshold when stage 2 finished.
C11_ContextWithinLowConfidence ==
  pipePc \in {"context", "done"} =>
    /\ enteredCtx \subseteq LowAfterMl
    /\ Cardinality(enteredCtx) <= Cardinality(LowAfterMl)

C11_Witness ==
  /\ pipePc = "done"
  /\ Len(perComment) = 2
  /\ Cardinality(enteredCtx) = 1
  /\ Cardinality(LowAfterMl) = 2

StageRank(st) == CASE st = "bpc" -> 1 [] st = "ml" -> 2 [] OTHER -> 3

\* C12: within a run the stage of a summary changes only from bpc to ml and
\* from ml to context: no regression, no jump from bpc to context, no change
\* after context.
C12_StageOrder ==
  [][(Len(perComment) > 0 /\ Len(perComment') = Len(perComment)) =>
       \A k \in 1..Len(perComment) :
          \/ perComment'[k].stage = perComment[k].stage
          \/ StageRank(perComment'[k].stage)
               = StageRank(perComment[k].stage) + 1]_vars

C12_Witness ==
  /\ pipePc = "done"
  /\ \E k \in 1..Len(perComment) :
        /\ perComment[k].stage = "context"
        /\ k \in enteredMl
        /\ k \in enteredCtx
  /\ \E k \in 1..Len(perComment) : perComment[k].stage = "bpc"

\* C13: in the result handed to the store, userScore and the score of every
\* summary lie in [0,1] (0..1000 thousandths).
C13_ScoresInUnitInterval ==
  pipePc = "done" =>
    /\ userStats.userScore \in 0..1000
    /\ \A k \in 1..Len(perComment) : perComment[k].score \in 0..1000

\* C14: in the result handed to the store, the confidence of every summary
\* and the overall confidence lie in [0,1] (0..1000 thousandths).
C14_ConfidenceInUnitInterval ==
  pipePc = "done" =>
    /\ userStats.confidence \in 0..1000
    /\ \A k \in 1..Len(perComment) : perComment[k].confidence \in 0..1000

\* a result with one summary at each of two stages, one of them promoted
\* with a parent whose perplexity distance exceeds the threshold
C14_Witness ==
  /\ pipePc = "done"
  /\ \E k \in enteredCtx : perComment[k].confidence = 1000
  /\ \E k \in 1..Len(perComment) : perComment[k].stage = "bpc"
  /\ userStats.confidence \in 1..999

\* C15: one request() call makes at most maxRetries HTTP attempts whatever
\* the responses: a call that is still running has attempts left, and a call
\* that used them all up on failures has resolved with a failure envelope.
C15_AttemptsBounded ==
  \A k \in 1..Len(batchTask) :
     /\ batchTask[k].attempts <= MaxRetries
     /\ batchTask[k].st = "pending" => batchTask[k].attempts < MaxRetries
     /\ batchTask[k].exhausted =>
          /\ batchTask[k].attempts = MaxRetries
          /\ batchTask[k].env = "failure"

\* a request that saw a 429, then a 503, then a timeout and ended in failure
C15_Witness ==
  \E k \in 1..Len(batchTask) :
     /\ batchTask[k].exhausted
     /\ batchTask[k].last = "timeout"
     /\ batchTask[k].attempts = MaxRetries
     /\ batchTask[k].env = "failure"
     /\ batchTask[k].st = "fulfilled"

\* C16: after a response with a non-success status other than 429 and 503
\* the request() call is over: it is not waiting to make another attempt.
C16_ErrorStatusFailsAtOnce ==
  \A k \in 1..Len(batchTask) :
     (batchTask[k].attempts > 0 /\ batchTask[k].last = "r500") =>
        batchTask[k].st # "pending"

\* C17: request(), and so classifyText and generateText of the client, never
\* rejects: whenever a call is over it resolved with an envelope that is
\* success with the response data or failure with an error message.
C17_EnvelopeNeverThrows ==
  \A k \in 1..Len(batchTask) :
     /\ batchTask[k].st # "rejected"
     /\ (batchTask[k].attempts > 0 /\ batchTask[k].st = "fulfilled")
          => batchTask[k].env \in {"success", "failure"}
     /\ (batchTask[k].attempts > 0 /\ batchTask[k].st = "pending")
          => batchTask[k].env = "none"
     /\ batchTask[k].env = "failure" => batchTask[k].envError # "none"
     /\ (batchTask[k].env = "success" /\ batchTask[k].st = "fulfilled")
          => batchTask[k].last = "ok"

\* one call ended in a failure envelope after a 500 on its last attempt,
\* another in a success envelope
C17_Witness ==
  /\ Len(batchTask) = 2
  /\ batchTask[1].env = "failure"
  /\ batchTask[1].last = "r500"
  /\ batchTask[1].envError = "HuggingFace API error"
  /\ batchTask[2].env = "success"
  /\ batchTask[2].st = "fulfilled"

\* C19: detectText never rejects; it returns the default result (score 0,
\* confidence 0) only after every model of the list has failed, and
\* otherwise the result of the first model, in list order, that did not
\* fail: the models before it all failed and the result is computed from
\* that model's own response.
C19_FirstWorkingModel ==
  batchKind = "aidetector" =>
    \A k \in 1..Len(batchTask) :
       LET t == batchTask[k]
       IN /\ t.st # "rejected"
          /\ t.failedModels = 1..(t.model - 1)
               \cup (IF t.got = "failed" THEN {t.model} ELSE {})
          /\ (t.st = "fulfilled" /\ t.got = "failed") =>
               /\ t.failedModels = 1..NumModels
               /\ t.score = 0
               /\ t.confidence = 0
          /\ (t.st = "fulfilled" /\ t.got \in {"labels", "generation"}) =>
               /\ t.env = "success"
               /\ t.score = OwnResult(t, batchTexts[k]).score
               /\ t.confidence = OwnResult(t, batchTexts[k]).confidence

\* one text answered by the second model after the first failed both ways,
\* another for which every model failed
C19_Witness ==
  /\ batchKind = "aidetector"
  /\ Len(batchTask) = 2
  /\ batchTask[1].st = "fulfilled"
  /\ batchTask[1].got = "labels"
  /\ batchTask[1].model = 2
  /\ batchTask[1].failedModels = {1}
  /\ batchTask[1].score = 900
  /\ batchTask[2].st = "fulfilled"
  /\ batchTask[2].got = "failed"
  /\ batchTask[2].failedModels = 1..NumModels

\* C18: an invocation whose fetch left no comment of the minimum length has,
\* when it is over, left the request in status error with an error message
\* and without a result document, having called only the content source.
C18_NoValidEndsInError ==
  \A i \in Invokers :
    (inv[i].exc = NoValidError /\ inv[i].pc \in {"returned", "threw"})
    => /\ reqStatus[inv[i].req] = "error"
       /\ reqError[inv[i].req] # "none"
       /\ ~resultDoc[inv[i].req]
       /\ inv[i].calls = 1

\* C20: fetchUserComments goes to the public endpoint whenever the OAuth
\* path failed (the token could not be had, the request threw, the response
\* was not OK or could not be read), rejects only when the public path
\* failed as well, and issues no public request once the OAuth path has
\* returned the comments.
C20_PublicFallback ==
  /\ fetchPc \in {"public", "returned", "threw"} =>
       fetchStat.oauthEnd # "none"
  /\ fetchStat.oauthEnd = "ok" =>
       /\ fetchPc = "returned"
       /\ fetchResult.via = "oauth"
       /\ fetchStat.publicReqs = 0
  /\ (fetchPc = "returned" /\ fetchStat.oauthEnd # "ok") =>
       /\ fetchResult.via = "public"
       /\ fetchStat.publicReqs >= 1
  /\ fetchPc = "threw" =>
       /\ fetchStat.oauthEnd \notin {"none", "ok"}
       /\ fetchStat.publicReqs >= 1
       /\ fetchResult.error # "none"

\* the OAuth request was rate limited on every attempt and the public
\* endpoint then returned the comments
C20_Witness ==
  /\ fetchPc = "returned"
  /\ fetchStat.oauthEnd = "requestThrew"
  /\ fetchStat.oauthReqs = FetchMaxRetries
  /\ fetchResult.via = "public"
  /\ fetchResult.count = 2

C22_LimitWithinCap ==
  fetchPc # "idle" =>
    /\ fetchStat.urlLimit <= fetchStat.maxItems
    /\ fetchStat.urlLimit <= FetchLimitCap

\* the summaries needsFurtherAnalysis selects at stage 2 (from the initial
\* summaries) and at stage 3 (from the summaries as stage 2 left them)
Stage2Selected ==
  {k \in 1..Len(validComments) :
     needsFurtherAnalysis(InitialSummary(k, validComments[k]))}
Stage3Selected ==
  {k \in 1..Len(afterMl) : needsFurtherAnalysis(afterMl[k])}

C24_SequentialOldestFirst ==
  /\ Len(pqDocs) <= PollLimit
  /\ \A a, b \in 1..Len(pqDocs) : a < b => pqDocs[a] < pqDocs[b]
  /\ Cardinality(pqInFlight) <= 1
  /\ pqPc = "handling" =>
       /\ pqIdx \in 1..Len(pqDocs)
       /\ pqInFlight = {pqDocs[pqIdx]}
       /\ pqStarted = SubSeq(pqDocs, 1, pqIdx)
  /\ pqPc # "handling" => pqInFlight = {}

\* six requests were queued when the query ran: the cycle took the five
\* oldest and is on the last of them
C24_Witness ==
  /\ pqPc = "handling"
  /\ pqDocs = <<1, 2, 3, 4, 5>>
  /\ pqIdx = 5
  /\ Len(pqStatus) = NumPollDocs
  /\ pqStatus[NumPollDocs] = "queued"

\* the weight-normalised average of the entropy signal and of the remote
\* signals whose own confidence meets the threshold
OwnConfidenceScore(c, r) ==
  LET s1 == IF c.bpcScore # Absent
            THEN <<[s |-> c.bpcScore, w |-> WeightBpc]>> ELSE <<>>
      s2 == IF c.perplexityScore # Absent
               /\ r.pp.confidence >= ConfidenceThreshold
            THEN <<[s |-> c.perplexityScore, w |-> WeightPerplexity]>>
            ELSE <<>>
      s3 == IF c.bertScore # Absent
               /\ r.bert.confidence >= ConfidenceThreshold
            THEN <<[s |-> c.bertScore, w |-> WeightBert]>> ELSE <<>>
      all == s1 \o s2 \o s3
      totalWeight == SumSeq([j \in 1..Len(all) |-> all[j].w])
      weightedSum == SumSeq([j \in 1..Len(all) |-> all[j].s * all[j].w])
  IN IF all = <<>> THEN 0
     ELSE IF Len(all) = 1 THEN all[1].s
     ELSE weightedSum \div totalWeight

\* C25: the score of a summary at stage 'ml' or 'context' is the
\* weight-normalised average of its entropy score and of exactly those
\* remote scores whose own confidence meets confidenceThreshold.
C25_OwnConfidenceGate ==
  \A k \in 1..Len(perComment) :
     perComment[k].stage \in {"ml", "context"} =>
        perComment[k].score = OwnConfidenceScore(perComment[k], lastResults[k])

\* the escalated summaries both of whose stage 2 classifier calls failed on
\* a text long enough to be sent, and that got no parent context
AllCallsFailed ==
  {k \in enteredMl \ enteredCtx :
      /\ validComments[k].len >= MinLength
      /\ ~lastResults[k].ppOk
      /\ ~lastResults[k].bertOk}

\* C26: when the run is over, an escalated summary whose classifier calls
\* all failed and that got no parent context is at stage 'ml' with
\* confidence 0 and the score of its entropy stage.
C26_AllFailedFallsBack ==
  pipePc = "done" =>
     \A k \in AllCallsFailed :
        /\ perComment[k].stage = "ml"
        /\ perComment[k].confidence = 0
        /\ perComment[k].score = InitialSummary(k, validComments[k]).score

\* a finished run with such a summary whose entropy score is not 0
C26_Witness ==
  /\ pipePc = "done"
  /\ \E k \in AllCallsFailed : perComment[k].score > 0

\* C27: when the stage 2 loop has ended, a summary it promoted to 'ml' has
\* a result from at least one classifier call that succeeded, its
\* confidence is the maximum of the two classifier confidences and its
\* score is the recomputed composite score.
C27_PromotedOnlyOnSuccess ==
  pipePc = "stage3" =>
     \A k \in enteredMl :
        /\ lastResults[k].ppOk \/ lastResults[k].bertOk
        /\ perComment[k].confidence =
              Max(lastResults[k].pp.confidence, lastResults[k].bert.confidence)
        /\ perComment[k].score = calculateScore(perComment[k])

\* a stage 3 task settled for summary k without promoting it
SettledWithoutContext(k) ==
  /\ k \in ctxPending
  /\ k \notin ctxPending'
  /\ k \notin enteredCtx'

\* C28: a stage 3 task that finds no parent context leaves its summary as
\* it was (stage, sub-scores, confidence, score, usedParentContext); and in
\* the summaries of a finished run usedParentContext is true exactly for
\* those at stage 'context'.
C28_AbsentContextNoChange ==
  /\ [][\A k \in 1..Len(perComment) :
          SettledWithoutContext(k) => perComment'[k] = perComment[k]]_vars
  /\ [](pipePc = "done" =>
          \A k \in 1..Len(perComment) :
             perComment[k].usedParentContext
               <=> perComment[k].stage = "context")

\* a finished run in which one summary was looked up without result and
\* another one was promoted with its parent context
C28_Witness ==
  /\ pipePc = "done"
  /\ lookups \ enteredCtx # {}
  /\ enteredCtx # {}

\* C29: the stages of a run follow one another. While a classifier request
\* has been issued, every valid comment has its entropy summary; while a
\* parent-context lookup has been started, no stage 2 classifier call is
\* unsettled and the stage 2 update loop has run; and the user statistics
\* are computed only when every stage 3 task has settled, from the
\* summaries as the tasks left them.
C29_StagesInSequence ==
  /\ (\E k \in 1..Len(remoteCalls) : remoteCalls[k] > 0) =>
        /\ Len(perComment) = Len(validComments)
        /\ \A k \in 1..Len(perComment) : perComment[k].bpcScore # Absent
  /\ pipePc = "ml" => lookups = {} /\ ctxPending = {}
  /\ mlPending # {} => pipePc = "ml"
  /\ lookups # {} => pipePc \in {"context", "done"} /\ mlPending = {}
  /\ pipePc = "done" =>
        /\ ctxPending = {}
        /\ userStats = calculateUserScore(perComment)
  /\ pipePc \in {"stage2", "ml", "stage3", "context"} => userStats = NoStats

\* a finished run that went through classifier calls at stage 2 and through
\* two stage 3 tasks, one of which changed its summary
C29_Witness ==
  /\ pipePc = "done"
  /\ Cardinality(enteredMl) = 2
  /\ Cardinality(lookups) = 2
  /\ enteredCtx # {}
  /\ userStats # NoStats

\* the summaries of the finished run whose score is positive, and the
\* weight 0.3 / 0.7 / 1.0 of the stage of a summary
Scored == SelectSeq(perComment, LAMBDA c : c.score > 0)
StageWeight(c) ==
  CASE c.stage = "bpc" -> 300
    [] c.stage = "ml" -> 700
    [] c.stage = "context" -> 1000

\* C30: the user score of a finished run is the unweighted mean of the
\* positive scores, and its confidence is min(1, the mean stage weight of
\* the summaries with a positive score); both are 0 when no score is
\* positive.
C30_UserAggregate ==
  pipePc = "done" =>
     IF Scored = <<>>
     THEN userStats.userScore = 0 /\ userStats.confidence = 0
     ELSE /\ userStats.userScore =
               SumSeq([j \in 1..Len(Scored) |-> Scored[j].score])
                 \div Len(Scored)
          /\ userStats.confidence =
               Min(1000, SumSeq([j \in 1..Len(Scored) |->
                                   StageWeight(Scored[j])]) \div Len(Scored))

\* a finished run with one summary of score 0 and one summary of positive
\* score that reached stage 'context'
C30_Witness ==
  /\ pipePc = "done"
  /\ Len(perComment) = 2
  /\ Len(Scored) = 1
  /\ Scored[1].stage = "context"
  /\ userStats.userScore = Scored[1].score
  /\ userStats.confidence = 1000


\* the number of bands an analysis assigns
BandCount(a) ==
  (IF a.isBot THEN 1 ELSE 0) + (IF a.isHuman THEN 1 ELSE 0)
    + (IF a.isInconclusive THEN 1 ELSE 0)

\* C31: the analysis of a text of at least minLength characters has exactly
\* one band: bot with confidence high below botThreshold, human with
\* confidence high above humanThreshold, inconclusive with confidence medium
\* from botThreshold to humanThreshold; a shorter text gets score 0,
\* confidence low, inconclusive.
C31_OneBand ==
  bpcCalls > 0 =>
     /\ BandCount(bpcAnalysis) = 1
     /\ IF bpcText.len < BpcMinLength
        THEN /\ bpcAnalysis.bpcScore = 0
             /\ bpcAnalysis.normalizedScore = 0
             /\ bpcAnalysis.confidence = "low"
             /\ bpcAnalysis.isInconclusive
        ELSE /\ bpcAnalysis.bpcScore = bpcText.entropy
             /\ bpcText.entropy < BotThreshold =>
                  bpcAnalysis.isBot /\ bpcAnalysis.confidence = "high"
             /\ bpcText.entropy > HumanThreshold =>
                  bpcAnalysis.isHuman /\ bpcAnalysis.confidence = "high"
             /\ (bpcText.entropy >= BotThreshold
                   /\ bpcText.entropy <= HumanThreshold) =>
                  /\ bpcAnalysis.isInconclusive
                  /\ bpcAnalysis.confidence = "medium"

\* a text of minLength characters whose entropy is humanThreshold itself,
\* analysed after a text that was too short
C31_Witness ==
  /\ bpcCalls = 2
  /\ bpcText = [len |-> BpcMinLength, entropy |-> HumanThreshold]
  /\ bpcAnalysis.isInconclusive
  /\ bpcPrevText.len < BpcMinLength
  /\ bpcPrev.confidence = "low"


\* C32: for a text of at least minLength characters whose entropy lies in
\* the inconclusive band [botThreshold, humanThreshold], the normalized
\* score lies in [0.2, 0.8] and is the linear interpolation from 0.8 at
\* botThreshold down to 0.2 at humanThreshold.
C32_InconclusiveBandLinear ==
  (/\ bpcCalls > 0
   /\ bpcText.len >= BpcMinLength
   /\ bpcText.entropy >= BotThreshold
   /\ bpcText.entropy <= HumanThreshold) =>
     /\ bpcAnalysis.normalizedScore >= 200
     /\ bpcAnalysis.normalizedScore <= 800
     /\ bpcAnalysis.normalizedScore =
          800 - (600 * (bpcText.entropy - BotThreshold))
                  \div (HumanThreshold - BotThreshold)

\* C33: the normalized score never increases with the entropy (of two
\* analysed texts the one with the lower entropy has the higher or the same
\* score), lies in [0, 1], is at least 0.8 in the bot band and at most 0.2
\* in the human band.
C33_NormalizedMonotone ==
  /\ (bpcCalls > 0 /\ bpcText.len >= BpcMinLength) =>
        /\ bpcAnalysis.normalizedScore >= 0
        /\ bpcAnalysis.normalizedScore <= 1000
        /\ bpcAnalysis.isBot => bpcAnalysis.normalizedScore >= 800
        /\ bpcAnalysis.isHuman => bpcAnalysis.normalizedScore <= 200
  /\ (/\ bpcCalls = 2
      /\ bpcText.len >= BpcMinLength
      /\ bpcPrevText.len >= BpcMinLength
      /\ bpcPrevText.entropy <= bpcText.entropy) =>
        bpcPrev.normalizedScore >= bpcAnalysis.normalizedScore


\* C34: a parent-context lookup stops after a bounded number of nested
\* fetchParentContext calls, whatever chain of replies the content source
\* returns: the nesting depth never exceeds the limit of 10.
C34_DepthLimited == ctxDepth <= 10


\* the outcomes of an HTTP attempt that the claim counts as transient
Transient == {"r429", "r503", "neterr"}

\* C35: a fetchWithRetry call makes at most maxRetries attempts, and a path
\* of fetchUserComments that is given up after a 429, a 503 or a network
\* error has made all maxRetries attempts before.
C35_TransientRetried ==
  /\ fetchStat.oauthReqs <= FetchMaxRetries
  /\ fetchStat.publicReqs <= FetchMaxRetries
  /\ (fetchStat.oauthEnd \in {"requestThrew", "notOk"}
        /\ fetchStat.oauthLast \in Transient) =>
        fetchStat.oauthReqs = FetchMaxRetries
  /\ (fetchPc = "threw" /\ fetchStat.publicLast \in Transient) =>
        fetchStat.publicReqs = FetchMaxRetries


\* C36: while the request being processed has includeParent false, no
\* parent-context lookup is made for it and none of its summaries is at
\* stage 'context' or has usedParentContext set.
C36_IncludeParentHonoured ==
  (pipePc # "idle" /\ ~includeParent) =>
     /\ lookups = {}
     /\ \A k \in 1..Len(perComment) :
          /\ perComment[k].stage # "context"
          /\ ~perComment[k].usedParentContext


\* C37: a summary at stage 'bpc' has neither a perplexity score nor a BERT
\* score, and a summary has these scores exactly when its stage is 'ml' or
\* 'context'.
C37_SubScoresFollowStage ==
  \A k \in 1..Len(perComment) :
     /\ perComment[k].stage = "bpc" =>
          /\ perComment[k].perplexityScore = Absent
          /\ perComment[k].bertScore = Absent
     /\ perComment[k].perplexityScore # Absent
          <=> perComment[k].stage \in {"ml", "context"}
     /\ perComment[k].bertScore # Absent
          <=> perComment[k].stage \in {"ml", "context"}

\* one summary still at stage 'bpc' without classifier scores next to one at
\* stage 'ml' whose perplexity score is a zero that is present
C37_Witness ==
  /\ Len(perComment) = 2
  /\ \E k \in 1..2 : /\ perComment[k].stage = "bpc"
                      /\ perComment[k].perplexityScore = Absent
  /\ \E k \in 1..2 : /\ perComment[k].stage = "ml"
                      /\ perComment[k].perplexityScore = 0
                      /\ perComment[k].bertScore > 0


\* the summaries with a positive score
Positive == {k \in 1..Len(perComment) : perComment[k].score > 0}

\* C38: in a finished run the three stage counters add up to the number of
\* summaries with a positive score, which is at most the number of
\* summaries (analyzedCount), which is at most totalCount; a summary with
\* score 0 is kept in perComment and counted by no stage counter.
C38_CountersAddUp ==
  pipePc = "done" =>
     /\ userStats.bpcAnalyzed + userStats.mlAnalyzed
          + userStats.contextAnalyzed = Cardinality(Positive)
     /\ Cardinality(Positive) <= Len(perComment)
     /\ Len(perComment) = Len(validComments)
     /\ Len(perComment) <= totalCount
     /\ \A st \in {"bpc", "ml", "context"} :
          (CASE st = "bpc" -> userStats.bpcAnalyzed
             [] st = "ml" -> userStats.mlAnalyzed
             [] OTHER -> userStats.contextAnalyzed)
            = Cardinality({k \in Positive : perComment[k].stage = st})

\* a finished run with two summaries, one of score 0 and one counted
C38_Witness ==
  /\ pipePc = "done"
  /\ totalCount = 2
  /\ Len(perComment) = 2
  /\ Cardinality(Positive) = 1
  /\ userStats.bpcAnalyzed + userStats.mlAnalyzed
       + userStats.contextAnalyzed = 1


\* the per-text calls that were scored from the labels of a response
FromLabels == {k \in 1..Len(batchTask) : batchTask[k].got = "labels"}

ShortAdmitted ==
  {k \in 1..Len(batchTexts) :
     /\ batchTexts[k].len >= FilterMinLength
     /\ batchTexts[k].len < MinLength}

\* C40: for a text shorter than minLength, classifyText, scoreText and
\* detectText make no request and resolve with score 0 and confidence 0.
C40_ShortTextNoCall ==
  \A k \in 1..Len(batchTexts) :
     batchTexts[k].len < MinLength =>
        /\ batchTask[k].st = "fulfilled"
        /\ batchTask[k].attempts = 0
        /\ batchTask[k].got = "short"
        /\ batchTask[k].score = 0
        /\ batchTask[k].confidence = 0

\* an AI detector batch with a text of 16 characters settled without a
\* request next to a longer text that has had requests
C40_Witness ==
  /\ batchKind = "aidetector"
  /\ ShortAdmitted # {}
  /\ \E k \in 1..Len(batchTexts) :
       /\ k \notin ShortAdmitted
       /\ batchTask[k].attempts > 0

====
